---------------------------- MODULE Spec2Model ----------------------------
(***************************************************************************)
(* State-machine model of the voidrun control plane: the vsock CONNECT     *)
(* handshake (pkg/machine/agent_client.go), the VMM API client and the     *)
(* sandbox lifecycle (pkg/machine, internal/service), the health           *)
(* reconciler (SandboxService.RefreshStatuses) and the WebSocket relays    *)
(* (internal/handler/pty.go, internal/handler/fs.go).                      *)
(*                                                                         *)
(* Each subsystem has its own specification over its own variables; the    *)
(* variables of the other subsystems stay at their initial values.         *)
(***************************************************************************)
EXTENDS Integers, Sequences, FiniteSets, TLC

VARIABLES
    \* ---- vsock handshake (DialVsock) ----
    vs_stream,      \* bytes the guest side sends on the Unix socket, in order
    vs_pos,         \* number of bytes of vs_stream the host has read
    vs_line,        \* strings.Builder `line`
    vs_pc,          \* position inside DialVsock
    vs_conn,        \* "none" | "open" | "closed"
    vs_deadline,    \* TRUE while a deadline is set on the connection
    vs_ret,         \* "none" | "conn" | "error": what DialVsock returned
    \* ---- sandbox lifecycle (per sandbox id) ----
    pc,             \* position of the Create/Restore/Delete request of the id
    kind,           \* "none" | "create" | "cold" | "live"
    ip,             \* IP of the attempt and of its record (0: none)
    files,          \* entries of the instance directory ("dir": it exists)
    tapdev,         \* kernel TAP device: "none" | "detached" | "bridged"
    vmm,            \* VMM process: "none" | "Starting" | "Empty" | "Created"
                    \*              | "Running" | "Paused" | "Exited"
    rec,            \* persisted status: "none" | "running" | "paused" | "stopped"
    acked,          \* the VMM answered success to vm.boot or vm.restore
    openedBridged,  \* the VMM processed create/boot/restore with a bridged TAP
    last,           \* the last Pause/Resume call and its outcome
    snapIp,         \* IP of the sandbox the restored snapshot was taken from
    \* ---- vsock CID derivation ----
    cid_a, cid_b,   \* the IPv4 addresses of two sandboxes
    cid_ra, cid_rb, \* getCidFromIP of each (-1: not computed yet)
    \* ---- health reconciler (RefreshStatuses) ----
    sw_cfg,         \* cfg.Health.Concurrency
    sw_pc,          \* "idle" | "loop" | "acquire" | "wait": the sweep's loop
    sw_i,           \* index of the record the loop is at
    sw_snap,        \* the statuses returned by repo.Find
    sw_sem,         \* number of tokens in the semaphore channel
    sw_worker,      \* per record: the worker goroutine spawned for it
    sw_ghost,       \* per record: sweeps and writes since its VMM died
    \* ---- WebSocket relays ----
    rl_kind,        \* "none" | "pty" | "watch"
    rl_handler,     \* "idle" | "relaying" | "returned"
    rl_sent,        \* per endpoint: the messages it has sent so far
    rl_nread,       \* per endpoint: how many of them the relay has read
    rl_out,         \* per endpoint: the messages the relay wrote to it
    rl_g,           \* per direction: position of its goroutine
    rl_msg,         \* per direction: the message in hand
    rl_shutdown,    \* shutdownChan is closed
    rl_once,        \* shutdownOnce: calls of closeShutdown, executions of close
    rl_peerClosed,  \* per endpoint: the peer has closed its side
    rl_connClosed,  \* per endpoint: the handler has closed the connection
    \* ---- snapshots (CreateSnapshot, finalizeSnapshot) ----
    sn_pc,          \* position of the CreateSnapshot call ("idle": none)
    sn_id,          \* the sandbox of the call
    sn_n,           \* number of snapshot directories named so far
    sn_call,        \* the call: state found, paused, resumed, return value
    sn_temp,        \* snapshot_temp: "absent" | "empty" | "partial" | "full"
    sn_snap,        \* per snapshot directory: dir, disk, state, modes
    sn_fin,         \* per snapshot directory: position of finalizeSnapshot
    \* ---- machine.Restore calls for one new id ----
    rs_pc,          \* per caller: position in machine.Restore
    rs_dir,         \* entries of newInstanceDir ("dir": it exists)
    rs_made,        \* per caller: what the call has made ("copy", "tap", "vmm")
    \* ---- FSService: shelled-out guest commands ----
    fs_req,         \* the call: operation and its arguments
    fs_cmd,         \* what it returned: an error, or the "cmd" string it sends
    \* ---- Create: kernel command line and caller environment ----
    kc_in,          \* what two Create requests share: ip, cfg, cpu, mem
    kc_env,         \* per request: its EnvVars
    kc_pc,          \* per request: position in Create
    kc_cmd,         \* per request: the kernel command line sent with vm.create
    kc_cfg,         \* per request: the rest of the VMM configuration
    kc_agent,       \* per request: what was posted to the agent at /env
    \* ---- API keys: ValidateKey and its cache ----
    ak_now,         \* the clock (time.Now), in ticks
    ak_store,       \* the key in the store: "active" | "inactive" | "deleted"
    ak_cache,       \* expiresAt of the cache entry of the key (-1: no entry)
    ak_pc,          \* per caller: position in ValidateKey
    ak_rev,         \* when the key was revoked and the expiry of the entry it then had
    ak_okAt,        \* last time a ValidateKey begun after the revocation succeeded
    \* ---- Handshake call sites ----
    hs_path,        \* the host code path performing the CONNECT handshake
    \* ---- One reconciler worker ----
    wk_sb,          \* the record as repo.Find returned it: its status
    wk_sock,        \* socketExists, the os.Stat result the worker captured
    wk_pc,          \* the position of the worker
    wk_info,        \* what vm.info answered, if it was called
    wk_new,         \* newState
    wk_updates,     \* the UpdateStatus calls made, in order
    \* ---- machine.Restore, one call ----
    rm_in,          \* the arguments: cold, ip, and the debug-console setting
    rm_pc,          \* the position of the call
    rm_copied,      \* what has been copied into the new instance directory
    rm_sent,        \* the VMM API requests sent, in order
    \* ---- Create: the readiness gate ----
    ra_in,          \* the request: sync, and when the agent starts to answer
    ra_now,         \* the clock
    ra_pc,          \* the position of Create
    ra_probe,       \* the probes made: their number, the start of the current one, the time of the answer
    ra_out,         \* the VMM, the instance directory, the record and what Create returned
    \* ---- ValidateKey: presented keys and cache entries ----
    kv_store,       \* the records FindActive returns
    kv_cache,       \* keyCache: per plaintext, the cached record and whether it is fresh
    kv_last,        \* the last ValidateKey call: the key presented and what it returned
    \* ---- shared HTTP clients (GetVMHTTPClient, GetSandboxHTTPClient) ----
    hc_client,      \* the package variable of each kind: 0 (nil) or the client stored last
    hc_call,        \* each caller: which client it asks for and through which function
    hc_pc,          \* each caller: its position
    hc_built,       \* each caller: whether it has created a client (client c is the one caller c made)
    hc_got          \* each caller: the client returned to it, 0 before the return

vsockVars == <<vs_stream, vs_pos, vs_line, vs_pc, vs_conn, vs_deadline, vs_ret>>
lifeVars == <<pc, kind, ip, files, tapdev, vmm, rec, acked, openedBridged, last,
              snapIp>>

cidVars == <<cid_a, cid_b, cid_ra, cid_rb>>
sweepVars == <<sw_cfg, sw_pc, sw_i, sw_snap, sw_sem, sw_worker, sw_ghost>>
relayVars == <<rl_kind, rl_handler, rl_sent, rl_nread, rl_out, rl_g, rl_msg,
               rl_shutdown, rl_once, rl_peerClosed, rl_connClosed>>

snapVars == <<sn_pc, sn_id, sn_n, sn_call, sn_temp, sn_snap, sn_fin>>

restVars == <<rs_pc, rs_dir, rs_made>>

fsVars == <<fs_req, fs_cmd>>

kcVars == <<kc_in, kc_env, kc_pc, kc_cmd, kc_cfg, kc_agent>>

akVars == <<ak_now, ak_store, ak_cache, ak_pc, ak_rev, ak_okAt>>

hsVars == <<hs_path>>

wkVars == <<wk_sb, wk_sock, wk_pc, wk_info, wk_new, wk_updates>>

rmVars == <<rm_in, rm_pc, rm_copied, rm_sent>>

raVars == <<ra_in, ra_now, ra_pc, ra_probe, ra_out>>

kvVars == <<kv_store, kv_cache, kv_last>>

hcVars == <<hc_client, hc_call, hc_pc, hc_built, hc_got>>

vars == <<vsockVars, lifeVars, cidVars, sweepVars, relayVars, snapVars,
          restVars, fsVars, kcVars, akVars, hsVars, wkVars, rmVars, raVars, kvVars, hcVars>>

\* What a step of one subsystem leaves alone.
notVsock == <<hcVars, kvVars, raVars, rmVars, wkVars, hsVars, akVars, kcVars, fsVars, lifeVars, cidVars, sweepVars, relayVars, snapVars, restVars>>
notLife == <<hcVars, kvVars, raVars, rmVars, wkVars, hsVars, akVars, kcVars, fsVars, vsockVars, cidVars, sweepVars, relayVars, snapVars, restVars>>
notSnap == <<hcVars, kvVars, raVars, rmVars, wkVars, hsVars, akVars, kcVars, fsVars, vsockVars, cidVars, sweepVars, relayVars, restVars, pc, kind, ip, files,
             tapdev, rec, acked, openedBridged, last, snapIp>>
notSweep == <<hcVars, kvVars, raVars, rmVars, wkVars, hsVars, akVars, kcVars, fsVars, vsockVars, cidVars, relayVars, snapVars, restVars, pc, kind, ip, files, tapdev, vmm,
              acked, openedBridged, last, snapIp>>
notCid == <<hcVars, kvVars, raVars, rmVars, wkVars, hsVars, akVars, kcVars, fsVars, vsockVars, lifeVars, sweepVars, relayVars, snapVars, restVars>>
notRelay == <<hcVars, kvVars, raVars, rmVars, wkVars, hsVars, akVars, kcVars, fsVars, vsockVars, lifeVars, cidVars, sweepVars, snapVars, restVars>>
notRest == <<hcVars, kvVars, raVars, rmVars, wkVars, hsVars, akVars, kcVars, vsockVars, lifeVars, cidVars, sweepVars, relayVars, snapVars, fsVars>>
notFs == <<hcVars, kvVars, raVars, rmVars, wkVars, hsVars, akVars, kcVars, vsockVars, lifeVars, cidVars, sweepVars, relayVars, snapVars, restVars>>
notKc == <<hcVars, kvVars, raVars, rmVars, wkVars, hsVars, akVars, vsockVars, lifeVars, cidVars, sweepVars, relayVars,
          snapVars, restVars, fsVars>>
notAk == <<hcVars, kvVars, raVars, rmVars, wkVars, hsVars, vsockVars, lifeVars, cidVars, sweepVars, relayVars,
          snapVars, restVars, fsVars, kcVars>>
notHs == <<hcVars, kvVars, raVars, rmVars, wkVars, vsockVars, lifeVars, cidVars, sweepVars, relayVars,
          snapVars, restVars, fsVars, kcVars, akVars>>
notWk == <<hcVars, kvVars, raVars, rmVars, vsockVars, lifeVars, cidVars, sweepVars, relayVars,
          snapVars, restVars, fsVars, kcVars, akVars, hsVars>>
notRm == <<hcVars, kvVars, raVars, vsockVars, lifeVars, cidVars, sweepVars, relayVars,
          snapVars, restVars, fsVars, kcVars, akVars, hsVars, wkVars>>
notRa == <<hcVars, kvVars, vsockVars, lifeVars, cidVars, sweepVars, relayVars,
          snapVars, restVars, fsVars, kcVars, akVars, hsVars, wkVars, rmVars>>
notKv == <<hcVars, vsockVars, lifeVars, cidVars, sweepVars, relayVars,
          snapVars, restVars, fsVars, kcVars, akVars, hsVars, wkVars, rmVars, raVars>>
notHc == <<vsockVars, lifeVars, cidVars, sweepVars, relayVars,
          snapVars, restVars, fsVars, kcVars, akVars, hsVars, wkVars, rmVars, raVars, kvVars>>

-----------------------------------------------------------------------------
(* Generic helpers *)

RECURSIVE SeqsUpTo(_, _)
SeqsUpTo(S, n) ==
    IF n = 0 THEN {<<>>}
    ELSE LET shorter == SeqsUpTo(S, n - 1)
         IN shorter \cup {Append(s, b) : s \in {t \in shorter : Len(t) = n - 1}, b \in S}

Repeat(b, n) == [i \in 1..n |-> b]

-----------------------------------------------------------------------------
(* ======================= Vsock adapter: DialVsock ======================= *)

\* Bound: guest streams are all byte sequences up to this length ...
MaxStream == 4
\* ... plus lines padded to around the handshake limit, followed by short tails.
MaxTail == 2

\* The handshake line limit of DialVsock (line.Len() > 64).
HandshakeLimit == 64

\* The bulk-read buffer of the retired DialVsock (buf := make([]byte, 32)).
BulkBuf == 32

Bytes == {"O", "K", "sp", "nl", "x"}

Streams ==
    SeqsUpTo(Bytes, MaxStream)
    \cup {<<"O", "K">> \o Repeat("x", k) \o t :
            k \in (HandshakeLimit - 3)..(HandshakeLimit - 1), t \in SeqsUpTo(Bytes, MaxTail)}

\* Number of bytes up to and including the first "nl" of s (0 when there is none).
FirstNl(s) ==
    LET nls == {i \in 1..Len(s) : s[i] = "nl"}
    IN IF nls = {} THEN 0 ELSE CHOOSE i \in nls : \A j \in nls : i <= j

\* strings.TrimSpace
RECURSIVE TrimLeft(_)
TrimLeft(s) == IF s # <<>> /\ Head(s) = "sp" THEN TrimLeft(Tail(s)) ELSE s

RECURSIVE TrimRight(_)
TrimRight(s) ==
    IF s # <<>> /\ s[Len(s)] = "sp" THEN TrimRight(SubSeq(s, 1, Len(s) - 1)) ELSE s

TrimSpace(s) == TrimRight(TrimLeft(s))

\* A variant that accepts any reply line.
MutAnyPrefix(s) == TRUE

\* strings.HasPrefix(response, "OK")
HasPrefixOK(s) == Len(s) >= 2 /\ s[1] = "O" /\ s[2] = "K"

\* A variant without the guard on the length of the line.
MutNoLimit(n) == FALSE

\* "Safety: Prevent infinite loop on malformed response": line.Len() > 64.
OverLimit(n) == n > HandshakeLimit

VsockInit ==
    /\ vs_stream \in Streams
    /\ vs_pos = 0
    /\ vs_line = <<>>
    /\ vs_pc = "dial"
    /\ vs_conn = "none"
    /\ vs_deadline = FALSE
    /\ vs_ret = "none"

\* The deferred close: runs on every return with conn # nil.
VsFail ==
    /\ vs_pc' = "done"
    /\ vs_ret' = "error"
    /\ vs_conn' = IF vs_conn = "open" THEN "closed" ELSE vs_conn

\* os.Stat of the socket, net.DialTimeout, SetDeadline and the CONNECT write.
VsDial ==
    /\ UNCHANGED notVsock
    /\ vs_pc = "dial"
    /\ \E sockExists \in BOOLEAN, dialOk \in BOOLEAN, writeOk \in BOOLEAN :
         IF ~sockExists \/ ~dialOk
         THEN /\ vs_pc' = "done" /\ vs_ret' = "error"
              /\ UNCHANGED <<vs_conn, vs_deadline>>
         ELSE IF ~writeOk
         THEN /\ vs_pc' = "done" /\ vs_ret' = "error"
              /\ vs_conn' = "closed" /\ vs_deadline' = TRUE
         ELSE /\ vs_pc' = "read"
              /\ vs_conn' = "open" /\ vs_deadline' = TRUE
              /\ UNCHANGED vs_ret
    /\ UNCHANGED <<vs_stream, vs_pos, vs_line>>

\* A variant of the read loop that reads in bulk, as the retired DialVsock did.
MutVsReadBulk ==
    /\ UNCHANGED notVsock
    /\ vs_pc = "read"
    /\ IF vs_pos >= Len(vs_stream)
       THEN VsFail /\ UNCHANGED <<vs_stream, vs_pos, vs_line, vs_deadline>>
       ELSE LET n == IF Len(vs_stream) - vs_pos > BulkBuf THEN BulkBuf
                     ELSE Len(vs_stream) - vs_pos
                chunk == SubSeq(vs_stream, vs_pos + 1, vs_pos + n)
                k == FirstNl(chunk)
            IN /\ vs_pos' = vs_pos + n
               /\ IF k > 0
                  THEN /\ vs_line' = vs_line \o SubSeq(chunk, 1, k - 1)
                       /\ vs_pc' = "validate"
                       /\ UNCHANGED <<vs_conn, vs_ret>>
                  ELSE /\ vs_line' = vs_line \o chunk
                       /\ IF Len(vs_line') > HandshakeLimit
                          THEN VsFail
                          ELSE UNCHANGED <<vs_pc, vs_conn, vs_ret>>
               /\ UNCHANGED <<vs_stream, vs_deadline>>

\* One iteration of the read loop: conn.Read of a single byte.
VsReadByte ==
    /\ UNCHANGED notVsock
    /\ vs_pc = "read"
    /\ IF vs_pos >= Len(vs_stream)
       THEN \* no byte arrives before the deadline, or EOF
            VsFail /\ UNCHANGED <<vs_stream, vs_pos, vs_line, vs_deadline>>
       ELSE LET b == vs_stream[vs_pos + 1]
            IN /\ vs_pos' = vs_pos + 1
               /\ IF b = "nl"
                  THEN /\ vs_pc' = "validate"
                       /\ UNCHANGED <<vs_line, vs_conn, vs_ret>>
                  ELSE /\ vs_line' = Append(vs_line, b)
                       /\ IF OverLimit(Len(vs_line'))
                          THEN VsFail
                          ELSE UNCHANGED <<vs_pc, vs_conn, vs_ret>>
               /\ UNCHANGED <<vs_stream, vs_deadline>>

\* TrimSpace + HasPrefix "OK", then SetDeadline(time.Time{}) (an error
\* returns and closes) and return of the connection.
VsValidate ==
    /\ UNCHANGED notVsock
    /\ vs_pc = "validate"
    /\ \E clearOk \in BOOLEAN :
         IF HasPrefixOK(TrimSpace(vs_line)) /\ clearOk
         THEN /\ vs_pc' = "done"
              /\ vs_ret' = "conn"
              /\ vs_deadline' = FALSE
              /\ UNCHANGED vs_conn
         ELSE VsFail /\ UNCHANGED vs_deadline
    /\ UNCHANGED <<vs_stream, vs_pos, vs_line>>

\* DialVsock has not been called.
VsockIdle ==
    /\ vs_stream = <<>> /\ vs_pos = 0 /\ vs_line = <<>> /\ vs_pc = "idle"
    /\ vs_conn = "none" /\ vs_deadline = FALSE /\ vs_ret = "none"

-----------------------------------------------------------------------------
(* ============ VMM API client and sandbox lifecycle engine ============== *)

\* Bounds: sandbox ids (fresh ObjectIDs) and addresses left in the pool.
MaxSbx == 2
NumIPs == 2

Ids == 1..MaxSbx
IpPool == 1..NumIPs

Alive(v) == v \in {"Starting", "Empty", "Created", "Running", "Paused"}

\* What the VMM answers to a PUT on its control socket in state v:
\* [code, body, next]. code 0: the connection is refused (no process).
VmmPut(v, ep) ==
    IF ~Alive(v) \/ v = "Starting" THEN {[code |-> 0, body |-> "", next |-> v]}
    ELSE IF ep = "vm.create" THEN
        IF v = "Empty"
        THEN {[code |-> 204, body |-> "", next |-> "Created"],
              [code |-> 500, body |-> "other", next |-> v]}
        ELSE {[code |-> 500, body |-> "other", next |-> v]}
    ELSE IF ep = "vm.boot" THEN
        IF v = "Created"
        THEN {[code |-> 204, body |-> "", next |-> "Running"],
              [code |-> 500, body |-> "other", next |-> v]}
        ELSE IF v = "Empty" THEN {[code |-> 500, body |-> "other", next |-> v]}
        ELSE {[code |-> c, body |-> "InvalidStateTransition", next |-> v] : c \in {400, 500}}
    ELSE IF ep = "vm.restore" THEN
        IF v = "Empty"
        THEN {[code |-> 204, body |-> "", next |-> "Paused"],
              [code |-> 500, body |-> "other", next |-> v]}
        ELSE {[code |-> 500, body |-> "other", next |-> v]}
    ELSE IF ep = "vm.pause" THEN
        IF v = "Running" THEN {[code |-> 204, body |-> "", next |-> "Paused"]}
        ELSE IF v = "Empty" THEN {[code |-> 500, body |-> "other", next |-> v]}
        ELSE {[code |-> c, body |-> "InvalidStateTransition", next |-> v] : c \in {400, 500}}
    ELSE IF ep = "vm.snapshot" THEN
        IF v = "Paused"
        THEN {[code |-> 204, body |-> "", next |-> v],
              [code |-> 500, body |-> "other", next |-> v]}
        ELSE {[code |-> 500, body |-> "other", next |-> v]}
    ELSE \* vm.resume
        IF v = "Paused" THEN {[code |-> 204, body |-> "", next |-> "Running"]}
        ELSE IF v = "Empty" THEN {[code |-> 500, body |-> "other", next |-> v]}
        ELSE {[code |-> c, body |-> "InvalidStateTransition", next |-> v] : c \in {400, 500}}

\* APIClient.request without the InvalidStateTransition coercion.
MutRequestStrict(r) == r.code \notin {200, 204}

\* APIClient.request: TRUE iff it returns an error for the response r.
Request(r) ==
    IF r.code = 0 THEN TRUE
    ELSE IF r.code # 200 /\ r.code # 204
         THEN IF r.body = "InvalidStateTransition" THEN FALSE ELSE TRUE
         ELSE FALSE

\* pkg/network: the state of the TAP after CreateRandomTap (created detached,
\* not a bridge port), after EnableTap (enslaved to the bridge), after DeleteTap.
CreateRandomTap == "detached"
EnableTap == "bridged"
DeleteTap == "none"

\* ISandboxRepository.NextAvailableIP: an address no record holds (0: none left).
NextAvailableIP ==
    LET freeIps == {a \in IpPool : \A i \in Ids : rec[i] = "none" \/ ip[i] # a}
    IN IF freeIps = {} THEN 0 ELSE CHOOSE a \in freeIps : \A b \in freeIps : a <= b

\* util.GenerateObjectID: the next unused id.
FreshId(id) == pc[id] = "free" /\ \A j \in Ids : j < id => pc[j] # "free"

LifeInit ==
    /\ pc = [i \in Ids |-> "free"]
    /\ kind = [i \in Ids |-> "none"]
    /\ ip = [i \in Ids |-> 0]
    /\ files = [i \in Ids |-> {}]
    /\ tapdev = [i \in Ids |-> "none"]
    /\ vmm = [i \in Ids |-> "none"]
    /\ rec = [i \in Ids |-> "none"]
    /\ acked = [i \in Ids |-> FALSE]
    /\ openedBridged = [i \in Ids |-> FALSE]
    /\ snapIp = [i \in Ids |-> 0]
    /\ last = [op |-> "none", pre |-> "none", post |-> "none", code |-> 0,
               body |-> "", err |-> FALSE]

\* The per-sandbox state after a step of the request that owns id.
Upd(id, npc, nfiles, ntap, nvmm) ==
    /\ pc' = [pc EXCEPT ![id] = npc]
    /\ files' = [files EXCEPT ![id] = nfiles]
    /\ tapdev' = [tapdev EXCEPT ![id] = ntap]
    /\ vmm' = [vmm EXCEPT ![id] = nvmm]

\* A variant of Stop that deletes the sandbox's TAP device by its derived
\* name, whether or not vm.tap is there.
MutStopTapAlways(f, t) == DeleteTap

\* A variant of Stop that ends with os.RemoveAll(instanceDir).
MutStopRemovesDir(f, v, rmSock) == {}

\* machine.Stop(id): SIGTERM to the PID of vm.pid and removal of vm.pid, then
\* DeleteTap of the TAP named in vm.tap and removal of vm.tap. A VMM that
\* exits may or may not unlink its control socket (rmSock).
StopFiles(f, v, rmSock) ==
    (f \ {"pid", "tap"}) \ (IF "pid" \in f /\ Alive(v) /\ rmSock THEN {"sock"} ELSE {})

\* A variant of Stop that leaves the TAP device as it is.
MutStopKeepsTap(f, t) == t

\* Stop, step 2: DeleteTap of the TAP named in vm.tap.
StopTap(f, t) == IF "tap" \in f THEN DeleteTap ELSE t
StopVmm(f, v) == IF "pid" \in f /\ Alive(v) THEN "Exited" ELSE v

\* The address configured in the guest kernel of a booted sandbox: a fresh
\* boot takes it from the `ip=` kernel argument built from spec.IPAddress, a
\* vm.restore brings back the memory of the snapshot and with it the address
\* its source had (0: no guest has booted).
GuestIP(id) ==
    IF ~acked[id] THEN 0
    ELSE IF kind[id] = "live" THEN snapIp[id]
    ELSE ip[id]

\* What the caller of machine.Start does when Start returned an error and left
\* the directory f: Create runs cleanup() (os.RemoveAll), machine.Restore
\* returns the error as it is.
AfterStartError(id, f) == IF kind[id] = "create" THEN {} ELSE f

\* Start's error paths that call Stop(spec.ID) before returning.
StartAbort(id) ==
    \E rmSock \in BOOLEAN :
        Upd(id, "failed",
            AfterStartError(id, StopFiles(files[id], vmm[id], rmSock)),
            StopTap(files[id], tapdev[id]),
            StopVmm(files[id], vmm[id]))


\* SandboxService.Create up to the ObjectID: NextAvailableIP, GenerateObjectID.
CreateBegin(id) ==
    /\ FreshId(id)
    /\ NextAvailableIP # 0
    /\ pc' = [pc EXCEPT ![id] = "prepare"]
    /\ kind' = [kind EXCEPT ![id] = "create"]
    /\ ip' = [ip EXCEPT ![id] = NextAvailableIP]
    /\ UNCHANGED <<notLife, snapIp, files, tapdev, vmm, rec, acked, openedBridged, last>>

\* storage.PrepareInstance: MkdirAll of the instance directory, qemu-img create.
PrepareInstance(id) ==
    /\ pc[id] = "prepare"
    /\ \E mkdirOk \in BOOLEAN, imgOk \in BOOLEAN :
         IF ~mkdirOk THEN Upd(id, "failed", files[id], tapdev[id], vmm[id])
         ELSE IF ~imgOk THEN Upd(id, "failed", {"dir"}, tapdev[id], vmm[id])
         ELSE Upd(id, "tap", {"dir", "overlay"}, tapdev[id], vmm[id])
    /\ UNCHANGED <<notLife, snapIp, kind, ip, rec, acked, openedBridged, last>>

\* SandboxService.Restore up to machine.Restore: GenerateObjectID and the IP.
\* The caller gives no address (0: NextAvailableIP is used) or gives the
\* first address of the pool. The snapshot at req.SnapshotPath was taken from
\* a sandbox whose address `from` is the address of this restore or another
\* one (kept for a live restore, where the guest memory comes back).
RestoreBegin(id) ==
    /\ FreshId(id)
    /\ \E newIP \in {0, 1}, cold \in BOOLEAN, same \in BOOLEAN :
         LET a == IF newIP = 0 THEN NextAvailableIP ELSE newIP
             from == IF same THEN a ELSE (a % NumIPs) + 1
         IN /\ a # 0
            /\ cold => same
            /\ ip' = [ip EXCEPT ![id] = a]
            /\ kind' = [kind EXCEPT ![id] = IF cold THEN "cold" ELSE "live"]
            /\ snapIp' = [snapIp EXCEPT ![id] = IF cold THEN 0 ELSE from]
    /\ pc' = [pc EXCEPT ![id] = "copy"]
    /\ UNCHANGED <<notLife, files, tapdev, vmm, rec, acked, openedBridged, last>>

\* machine.Restore before Start: the directory check, MkdirAll, the copy of
\* the overlay and, for a live restore, of the RAM state.
RestoreCopy(id) ==
    /\ pc[id] = "copy"
    /\ \E mkdirOk \in BOOLEAN, diskOk \in BOOLEAN, stateOk \in BOOLEAN :
         IF "dir" \in files[id] \/ ~mkdirOk
         THEN Upd(id, "failed", files[id], tapdev[id], vmm[id])
         ELSE IF ~diskOk \/ (kind[id] = "live" /\ ~stateOk)
         THEN Upd(id, "failed", {}, tapdev[id], vmm[id])
         ELSE Upd(id, "tap",
                  {"dir", "overlay"} \cup (IF kind[id] = "live" THEN {"state"} ELSE {}),
                  tapdev[id], vmm[id])
    /\ UNCHANGED <<notLife, snapIp, kind, ip, rec, acked, openedBridged, last>>

\* Start: network.CreateRandomTap (detached) and the write of vm.tap.
StartTap(id) ==
    /\ pc[id] = "tap"
    /\ \E ok \in BOOLEAN :
         IF ok THEN Upd(id, "spawn", files[id] \cup {"tap"}, CreateRandomTap, vmm[id])
         ELSE Upd(id, "failed", AfterStartError(id, files[id]), tapdev[id], vmm[id])
    /\ UNCHANGED <<notLife, snapIp, kind, ip, rec, acked, openedBridged, last>>

\* Start: os.Create of vm.log, spawn of the VMM with --api-socket and
\* --log-file, write of vm.pid.
StartSpawn(id) ==
    /\ pc[id] = "spawn"
    /\ \E ok \in BOOLEAN :
         IF ok THEN Upd(id, "wait", files[id] \cup {"log", "pid"}, tapdev[id], "Starting")
         ELSE Upd(id, "failed", AfterStartError(id, files[id] \cup {"log"}),
                  tapdev[id], vmm[id])
    /\ UNCHANGED <<notLife, snapIp, kind, ip, rec, acked, openedBridged, last>>

\* A variant of Start that returns the timeout error without Stop(spec.ID).
MutStartWaitNoStop(id) ==
    /\ pc[id] = "wait"
    /\ \/ /\ vmm[id] = "Starting"
          /\ Upd(id, "config", files[id] \cup {"sock"}, tapdev[id], "Empty")
       \/ Upd(id, "failed", AfterStartError(id, files[id]), tapdev[id], vmm[id])
    /\ UNCHANGED <<notLife, snapIp, kind, ip, rec, acked, openedBridged, last>>

\* Start: client.WaitForSocket(2s); on timeout Stop(spec.ID) and return.
StartWait(id) ==
    /\ pc[id] = "wait"
    /\ \/ /\ vmm[id] = "Starting"
          /\ Upd(id, "config", files[id] \cup {"sock"}, tapdev[id], "Empty")
       \/ StartAbort(id)
    /\ UNCHANGED <<notLife, snapIp, kind, ip, rec, acked, openedBridged, last>>

\* Start with vm.boot's error ignored: the late binding is reached anyway.
MutStartApiNoCheck(id, ep, okPc) ==
    \E r \in VmmPut(vmm[id], ep) :
        /\ openedBridged' = [openedBridged EXCEPT ![id] = @ \/ tapdev[id] = "bridged"]
        /\ acked' = [acked EXCEPT ![id] = @ \/ (ep # "vm.create" /\ r.code = 204)]
        /\ Upd(id, okPc, files[id], tapdev[id], r.next)

\* One VMM API call of Start (client.SendJSON / client.Send) and its error
\* path: Stop(spec.ID) and return.
StartApi(id, ep, okPc) ==
    \E r \in VmmPut(vmm[id], ep) :
        /\ openedBridged' = [openedBridged EXCEPT ![id] = @ \/ tapdev[id] = "bridged"]
        /\ acked' = [acked EXCEPT ![id] = @ \/ (ep # "vm.create" /\ r.code = 204)]
        /\ IF Request(r) THEN StartAbort(id)
           ELSE Upd(id, okPc, files[id], tapdev[id], r.next)

\* Start: vm.restore (restore mode) or vm.create (fresh boot mode).
StartConfig(id) ==
    /\ pc[id] = "config"
    /\ IF kind[id] = "live" THEN StartApi(id, "vm.restore", "enable")
       ELSE StartApi(id, "vm.create", "boot")
    /\ UNCHANGED <<notLife, snapIp, kind, ip, rec, last>>

\* Start: vm.boot.
StartBoot(id) ==
    /\ pc[id] = "boot"
    /\ StartApi(id, "vm.boot", "enable")
    /\ UNCHANGED <<notLife, snapIp, kind, ip, rec, last>>

\* Start: the late binding, network.EnableTap(bridge, tapName).
StartEnableTap(id) ==
    /\ pc[id] = "enable"
    /\ \/ Upd(id, CASE kind[id] = "create" -> "agent"
                    [] kind[id] = "cold" -> "persist"
                    [] OTHER -> "resume",
              files[id], EnableTap, vmm[id])
       \/ StartAbort(id)
    /\ UNCHANGED <<notLife, snapIp, kind, ip, rec, acked, openedBridged, last>>

\* machine.Restore after Start (live only): WaitForSocket, then vm.resume,
\* whose error is only logged.
RestoreResume(id) ==
    /\ pc[id] = "resume"
    /\ IF "sock" \notin files[id]
       THEN Upd(id, "failed", files[id], tapdev[id], vmm[id])
       ELSE \E r \in VmmPut(vmm[id], "vm.resume") :
               Upd(id, "persist", files[id], tapdev[id], r.next)
    /\ UNCHANGED <<notLife, snapIp, kind, ip, rec, acked, openedBridged, last>>

\* Create: the readiness gate waitForAgent (sync) and its rollback.
CreateWaitAgent(id) ==
    /\ pc[id] = "agent"
    /\ \E sync \in BOOLEAN, ready \in BOOLEAN, rmSock \in BOOLEAN :
         /\ ready => vmm[id] = "Running"
         /\ IF sync /\ ~ready
            THEN Upd(id, "failed", {}, StopTap(files[id], tapdev[id]),
                     StopVmm(files[id], vmm[id]))
            ELSE Upd(id, "persist", files[id], tapdev[id], vmm[id])
    /\ UNCHANGED <<notLife, snapIp, kind, ip, rec, acked, openedBridged, last>>

\* Create / Restore: repo.Create of the record with status running.
Persist(id) ==
    /\ pc[id] = "persist"
    /\ \E ok \in BOOLEAN :
         IF ok
         THEN /\ rec' = [rec EXCEPT ![id] = "running"]
              /\ Upd(id, "done", files[id], tapdev[id], vmm[id])
         ELSE /\ UNCHANGED rec
              /\ IF kind[id] = "create"
                 THEN Upd(id, "failed", {}, StopTap(files[id], tapdev[id]),
                          StopVmm(files[id], vmm[id]))
                 ELSE Upd(id, "failed", files[id], tapdev[id], vmm[id])
    /\ UNCHANGED <<notLife, snapIp, kind, ip, acked, openedBridged, last>>

\* SandboxService.Stop -> machine.Stop.
Stop(id) ==
    /\ pc[id] = "done"
    /\ \E rmSock \in BOOLEAN :
         Upd(id, "done", StopFiles(files[id], vmm[id], rmSock),
             StopTap(files[id], tapdev[id]), StopVmm(files[id], vmm[id]))
    /\ UNCHANGED <<notLife, snapIp, kind, ip, rec, acked, openedBridged, last>>

\* A variant of machine.Delete that removes the directory without Stop.
MutDeleteNoStop(id) ==
    /\ pc[id] = "done"
    /\ Upd(id, "deleting", {}, tapdev[id], vmm[id])
    /\ UNCHANGED <<notLife, snapIp, kind, ip, rec, acked, openedBridged, last>>

\* SandboxService.Delete, first half: machine.Delete (Stop, os.RemoveAll).
DeleteMachine(id) ==
    /\ pc[id] = "done"
    /\ Upd(id, "deleting", {}, StopTap(files[id], tapdev[id]),
           StopVmm(files[id], vmm[id]))
    /\ UNCHANGED <<notLife, snapIp, kind, ip, rec, acked, openedBridged, last>>

\* SandboxService.Delete, second half: repo.Delete.
DeleteRecord(id) ==
    /\ pc[id] = "deleting"
    /\ pc' = [pc EXCEPT ![id] = "deleted"]
    /\ rec' = [rec EXCEPT ![id] = "none"]
    /\ UNCHANGED <<notLife, snapIp, kind, ip, files, tapdev, vmm, acked, openedBridged, last>>

\* machine.Pause / machine.Resume: the socket check, then client.Send(ep).
PauseResume(id, ep) ==
    /\ pc[id] = "done"
    /\ IF "sock" \notin files[id]
       THEN /\ last' = [op |-> ep, pre |-> vmm[id], post |-> vmm[id], code |-> 0,
                        body |-> "no socket", err |-> TRUE]
            /\ UNCHANGED vmm
       ELSE \E r \in VmmPut(vmm[id], ep) :
              /\ vmm' = [vmm EXCEPT ![id] = r.next]
              /\ last' = [op |-> ep, pre |-> vmm[id], post |-> r.next, code |-> r.code,
                          body |-> r.body, err |-> Request(r)]
    /\ UNCHANGED <<notLife, snapIp, pc, kind, ip, files, tapdev, rec, acked, openedBridged>>

Pause(id) == PauseResume(id, "vm.pause")

Resume(id) == PauseResume(id, "vm.resume")

\* The VMM process of a created sandbox dies by itself; it may leave its
\* control socket behind. (A VMM that dies while Start is still running shows
\* as a timed-out WaitForSocket or a failed API call of Start.)
VmmCrash(id) ==
    /\ pc[id] = "done"
    /\ Alive(vmm[id])
    /\ vmm' = [vmm EXCEPT ![id] = "Exited"]
    /\ \E rmSock \in BOOLEAN :
         files' = [files EXCEPT ![id] = IF rmSock THEN @ \ {"sock"} ELSE @]
    /\ UNCHANGED <<notLife, snapIp, pc, kind, ip, tapdev, rec, acked, openedBridged, last>>

LifeNext ==
    \E id \in Ids :
        \/ CreateBegin(id) \/ PrepareInstance(id)
        \/ RestoreBegin(id) \/ RestoreCopy(id)
        \/ StartTap(id) \/ StartSpawn(id) \/ StartWait(id)
        \/ StartConfig(id) \/ StartBoot(id) \/ StartEnableTap(id)
        \/ RestoreResume(id) \/ CreateWaitAgent(id) \/ Persist(id)
        \/ Stop(id) \/ DeleteMachine(id) \/ DeleteRecord(id)
        \/ VmmCrash(id)

\* Every id was created, its record says running and its VMM is in state v[id].
Created(v) ==
    /\ pc = [i \in Ids |-> "done"]
    /\ kind = [i \in Ids |-> "create"]
    /\ ip = [i \in Ids |-> i]
    /\ files = [i \in Ids |-> {"dir", "overlay", "log", "tap", "pid", "sock"}]
    /\ tapdev = [i \in Ids |-> "bridged"]
    /\ vmm = v
    /\ rec = [i \in Ids |-> "running"]
    /\ acked = [i \in Ids |-> TRUE]
    /\ openedBridged = [i \in Ids |-> FALSE]
    /\ snapIp = [i \in Ids |-> 0]
    /\ last = [op |-> "none", pre |-> "none", post |-> "none", code |-> 0,
               body |-> "", err |-> FALSE]

\* Operations on sandboxes that exist and are running.
VmmInit == Created([i \in Ids |-> "Running"])

VmmNext == \E id \in Ids : Pause(id) \/ Resume(id) \/ Stop(id) \/ VmmCrash(id)

-----------------------------------------------------------------------------
(* ==================== vsock CID derivation: getCidFromIP =============== *)

\* Addresses considered: the first CidNets /24 blocks of the configured
\* network, host octets 0..CidHosts-1 of each.
CidNets == 2
CidHosts == 3

\* DefaultNetworkCIDR = 192.168.100.0/22: the first two octets, the first
\* value of the third octet, and the number of /24 blocks in the network.
NetworkPrefix == <<192, 168>>
NetworkThird == 100
NetworkBlocks == 4

\* IPv4 addresses as net.IP.To4 holds them: four octets.
CidrAddrs ==
    {NetworkPrefix \o <<NetworkThird + n, h>> :
        n \in 0..(CidNets - 1), h \in 0..(CidHosts - 1)}

InCidr(a) ==
    /\ Len(a) = 4
    /\ SubSeq(a, 1, 2) = NetworkPrefix
    /\ a[3] \in NetworkThird..(NetworkThird + NetworkBlocks - 1)
    /\ a[4] \in 0..255

CidOffset == 1000

\* getCidFromIP: 0 when the string is not an IPv4 address, else the last
\* byte plus the offset (a uint64: no wrap-around for a byte plus 1000).
getCidFromIP(a) ==
    IF Len(a) # 4 \/ \E i \in 1..Len(a) : a[i] \notin 0..255
    THEN 0
    ELSE a[4] + CidOffset

CidInit ==
    /\ cid_a \in CidrAddrs
    /\ cid_b \in CidrAddrs
    /\ cid_ra = -1
    /\ cid_rb = -1

\* Start derives the CID of the first sandbox.
CidOfA ==
    /\ cid_ra = -1
    /\ cid_ra' = getCidFromIP(cid_a)
    /\ UNCHANGED <<notCid, cid_a, cid_b, cid_rb>>

\* Start derives the CID of the second sandbox.
CidOfB ==
    /\ cid_rb = -1
    /\ cid_rb' = getCidFromIP(cid_b)
    /\ UNCHANGED <<notCid, cid_a, cid_b, cid_ra>>

CidNext == CidOfA \/ CidOfB

CidIdle ==
    /\ cid_a = <<>>
    /\ cid_b = <<>>
    /\ cid_ra = -1
    /\ cid_rb = -1

-----------------------------------------------------------------------------
(* ================= Health reconciler: RefreshStatuses ================== *)

DefaultHealthConcurrency == 16
FallbackConcurrency == 20

\* Values of HEALTH_CONCURRENCY the sweep is run with.
CfgValues == {0, 1, 2, DefaultHealthConcurrency}

\* maxConc: the capacity of the semaphore channel.
MaxConc(c) == IF c <= 0 THEN FallbackConcurrency ELSE c

\* A variant in which the send on the semaphore never blocks.
MutSemUnbounded(held, cap) == TRUE

\* `sem <- struct{}{}` on a channel of capacity cap holding `held` tokens
\* goes through only while the channel is not full.
SemHasRoom(held, cap) == held < cap

\* GetStateWithContext against a VMM in state v: [err, state]. A dead VMM
\* never answers; a live one answers its state or runs into the 2s deadline.
GetStateWithContext(v) ==
    IF Alive(v)
    THEN {[err |-> FALSE, state |-> v], [err |-> TRUE, state |-> ""]}
    ELSE {[err |-> TRUE, state |-> ""]}

\* A variant that compares the state as the VMM spelled it.
MutToLowerKeepsCase(s) == s

\* strings.ToLower on the state names a VMM may report.
ToLower(s) ==
    CASE s \in {"Running", "RUNNING"} -> "running"
      [] s \in {"RunningVirtualized", "RUNNINGVIRTUALIZED"} -> "runningvirtualized"
      [] s \in {"Paused", "PAUSED"} -> "paused"
      [] s = "Loaded" -> "loaded"
      [] s = "Created" -> "created"
      [] s = "Shutdown" -> "shutdown"
      [] OTHER -> s

\* The switch that maps a VMM state to a persisted status.
MapState(r) ==
    IF r.err THEN "stopped"
    ELSE IF ToLower(r.state) \in {"running", "runningvirtualized"} THEN "running"
    ELSE IF ToLower(r.state) = "paused" THEN "paused"
    ELSE "stopped"

\* A variant that writes the status whether or not it changed.
MutAlwaysWrite(old, new) == TRUE

\* "Only write to DB if state actually changed".
NeedsWrite(old, new) == old # new

NoWorker == [pc |-> "none", sock |-> FALSE, new |-> "stopped", asked |-> FALSE]
Working == {id \in Ids : sw_worker[id].pc \in {"probe", "write"}}

SweepQuiet ==
    /\ sw_pc = "idle"
    /\ sw_i = 0
    /\ sw_snap = [i \in Ids |-> "none"]
    /\ sw_sem = 0
    /\ sw_worker = [i \in Ids |-> NoWorker]
    /\ sw_ghost = [i \in Ids |-> [ph |-> "alive", w1 |-> FALSE, wN |-> FALSE]]

\* The sweep runs over created sandboxes, each running or paused by a Pause
\* (which does not touch the record).
SweepInit ==
    /\ sw_cfg \in CfgValues
    /\ SweepQuiet
    /\ \E v \in [Ids -> {"Running", "Paused"}] : Created(v)

SweepIdle == sw_cfg = DefaultHealthConcurrency /\ SweepQuiet

\* A tick of the health monitor: RefreshStatuses starts and repo.Find returns
\* the records. (The monitor calls it from one loop: sweeps never overlap.)
SweepBegin ==
    /\ sw_pc = "idle"
    /\ sw_pc' = "loop"
    /\ sw_i' = 1
    /\ sw_snap' = rec
    /\ sw_ghost' = [i \in Ids |->
         IF Alive(vmm[i]) \/ vmm[i] = "none" THEN sw_ghost[i]
         ELSE [sw_ghost[i] EXCEPT !.ph =
                 IF @ = "alive" THEN "sweeping1" ELSE "sweepingN"]]
    /\ UNCHANGED <<notSweep, rec, sw_cfg, sw_sem, sw_worker>>

\* A variant without the fast path.
MutNoFastPath(status, socketExists) == FALSE

\* `if sb.Status == "stopped" && !socketExists { continue }`
FastPath(status, socketExists) == status = "stopped" /\ ~socketExists

\* One iteration of the loop up to the semaphore: the os.Stat of the socket
\* and the fast path.
SweepStat ==
    /\ sw_pc = "loop"
    /\ sw_i \in Ids
    /\ LET socketExists == "sock" \in files[sw_i]
       IN IF \/ sw_snap[sw_i] = "none"
             \/ FastPath(sw_snap[sw_i], socketExists)
          THEN /\ sw_i' = sw_i + 1
               /\ UNCHANGED <<sw_pc, sw_worker>>
          ELSE /\ sw_pc' = "acquire"
               /\ sw_worker' = [sw_worker EXCEPT ![sw_i] =
                      [pc |-> "pending", sock |-> socketExists,
                       new |-> "stopped", asked |-> FALSE]]
               /\ UNCHANGED sw_i
    /\ UNCHANGED <<notSweep, rec, sw_cfg, sw_snap, sw_sem, sw_ghost>>

\* wg.Add(1); sem <- struct{}{}; go func() ...
SweepSpawn ==
    /\ sw_pc = "acquire"
    /\ SemHasRoom(sw_sem, MaxConc(sw_cfg))
    /\ sw_sem' = sw_sem + 1
    /\ sw_worker' = [sw_worker EXCEPT ![sw_i].pc = "probe"]
    /\ sw_i' = sw_i + 1
    /\ sw_pc' = "loop"
    /\ UNCHANGED <<notSweep, rec, sw_cfg, sw_snap, sw_ghost>>

\* A variant that asks the VMM whether or not its socket was found.
MutAsksAnyway(socketExists) == TRUE

\* `if socketExists {`: vm.info is called only on a socket that was found.
CallsInfo(socketExists) == socketExists

\* The worker's probe: newState; asked records that vm.info was called.
WorkerProbe(id) ==
    /\ sw_worker[id].pc = "probe"
    /\ IF CallsInfo(sw_worker[id].sock)
       THEN \E r \in GetStateWithContext(vmm[id]) :
              sw_worker' = [sw_worker EXCEPT ![id] =
                  [pc |-> "write", sock |-> @.sock, new |-> MapState(r),
                   asked |-> TRUE]]
       ELSE sw_worker' = [sw_worker EXCEPT ![id].pc = "write"]
    /\ UNCHANGED <<notSweep, rec, sw_cfg, sw_pc, sw_i, sw_snap, sw_sem, sw_ghost>>

\* The worker's write (repo.UpdateStatus) and its deferred release.
WorkerFinish(id) ==
    /\ sw_worker[id].pc = "write"
    /\ LET w == NeedsWrite(sw_snap[id], sw_worker[id].new)
       IN /\ rec' = IF w THEN [rec EXCEPT ![id] = sw_worker[id].new] ELSE rec
          /\ sw_ghost' = [sw_ghost EXCEPT ![id] =
               [ph |-> @.ph,
                w1 |-> @.w1 \/ (w /\ @.ph = "sweeping1"),
                wN |-> @.wN \/ (w /\ @.ph = "sweepingN")]]
    /\ sw_sem' = sw_sem - 1
    /\ sw_worker' = [sw_worker EXCEPT ![id] = NoWorker]
    /\ UNCHANGED <<notSweep, sw_cfg, sw_pc, sw_i, sw_snap>>

\* A variant in which RefreshStatuses returns without waiting.
MutNoWait(running) == TRUE

\* wg.Wait(): blocks until every worker has called wg.Done.
WaitReturns(running) == running = {}

\* wg.Wait() returns: the sweep is complete, and the monitor's loop goes back
\* to its ticker.
SweepEnd ==
    /\ sw_pc = "loop"
    /\ sw_i \notin Ids
    /\ WaitReturns(Working)
    /\ sw_pc' = "idle"
    /\ sw_i' = 0
    /\ sw_ghost' = [i \in Ids |-> [sw_ghost[i] EXCEPT !.ph =
         IF @ = "sweeping1" THEN "swept1"
         ELSE IF @ = "sweepingN" THEN "sweptN" ELSE @]]
    /\ UNCHANGED <<notSweep, rec, sw_cfg, sw_snap, sw_sem, sw_worker>>

SweepNext ==
    \/ SweepBegin \/ SweepStat \/ SweepSpawn \/ SweepEnd
    \/ \E id \in Ids :
         \/ WorkerProbe(id) \/ WorkerFinish(id)
         \/ VmmCrash(id)

-----------------------------------------------------------------------------
(* ============ WebSocket relays: PTY (Proxy, ConnectSession) ============ *)
(* ============ and file-watch (StreamWatchEvents)            ============ *)

\* The two endpoints send at most MaxMsgs messages in all.
MaxMsgs == 2

Endpoints == {"client", "agent"}
Other(e) == IF e = "client" THEN "agent" ELSE "client"

\* Data messages: opcode and payload. Payloads "j1" and "j1s" are two
\* encodings of the same JSON object ("j1" the one json.Marshal produces,
\* "j1s" one with other spacing or key order); "raw" is not a JSON object.
Ops == {"text", "binary"}
Payloads == {"j1", "j1s", "raw"}
Msgs == [op : Ops, data : Payloads]
NoMsg == [op |-> "none", data |-> ""]

\* A variant that writes every message as a text message.
MutWriteText(m) == [op |-> "text", data |-> m.data]

\* conn.WriteMessage(mt, msg): the message the peer receives.
WriteMessage(m) == m

\* conn.ReadJSON(&event) into a map: fails unless the payload is a JSON object.
ReadJSON(m) == m.data \in {"j1", "j1s"}

\* json.Marshal of the decoded map.
Marshal(p) == IF p = "j1s" THEN "j1" ELSE p

\* conn.WriteJSON(event): a text message with the marshalled value.
WriteJSON(m) == [op |-> "text", data |-> Marshal(m.data)]

RelayIdle ==
    /\ rl_kind = "none"
    /\ rl_handler = "idle"
    /\ rl_sent = [e \in Endpoints |-> <<>>]
    /\ rl_nread = [e \in Endpoints |-> 0]
    /\ rl_out = [e \in Endpoints |-> <<>>]
    /\ rl_g = [e \in Endpoints |-> "off"]
    /\ rl_msg = [e \in Endpoints |-> NoMsg]
    /\ rl_shutdown = FALSE
    /\ rl_once = [calls |-> 0, closes |-> 0]
    /\ rl_peerClosed = [e \in Endpoints |-> FALSE]
    /\ rl_connClosed = [e \in Endpoints |-> FALSE]

\* The handler up to the relay: the client connection is upgraded, the agent
\* is dialled; a failed dial ends the handler (the file-watch handler first
\* tells the client), a successful one starts the two goroutines.
RelayBegin(k, dialOk) ==
    /\ rl_handler = "idle"
    /\ rl_kind' = k
    /\ IF dialOk
       THEN /\ rl_handler' = "relaying"
            /\ rl_g' = [e \in Endpoints |-> IF k = "pty" THEN "top" ELSE "read"]
            /\ UNCHANGED <<rl_out, rl_connClosed>>
       ELSE /\ rl_handler' = "returned"
            /\ rl_out' = IF k = "watch"
                         THEN [rl_out EXCEPT !["client"] =
                                 <<[op |-> "text", data |-> "error"]>>]
                         ELSE rl_out
            /\ rl_connClosed' = [rl_connClosed EXCEPT !["client"] = TRUE]
            /\ UNCHANGED rl_g
    /\ UNCHANGED <<notRelay, rl_sent, rl_nread, rl_msg, rl_shutdown, rl_once, rl_peerClosed>>

\* An endpoint sends a data message.
PeerSend(e, m) ==
    /\ rl_handler = "relaying"
    /\ ~rl_peerClosed[e]
    /\ Len(rl_sent["client"]) + Len(rl_sent["agent"]) < MaxMsgs
    /\ rl_sent' = [rl_sent EXCEPT ![e] = Append(@, m)]
    /\ UNCHANGED <<notRelay, rl_kind, rl_handler, rl_nread, rl_out, rl_g, rl_msg,
                   rl_shutdown, rl_once, rl_peerClosed, rl_connClosed>>

\* An endpoint closes its side.
PeerClose(e) ==
    /\ rl_handler = "relaying"
    /\ ~rl_peerClosed[e]
    /\ rl_peerClosed' = [rl_peerClosed EXCEPT ![e] = TRUE]
    /\ UNCHANGED <<notRelay, rl_kind, rl_handler, rl_sent, rl_nread, rl_out, rl_g,
                   rl_msg, rl_shutdown, rl_once, rl_connClosed>>

\* ReadMessage / ReadJSON on the connection to e: a message is waiting, or
\* the peer has closed and the call fails; otherwise the call blocks.
Waiting(e) == rl_nread[e] < Len(rl_sent[e])
ReadFails(e) == ~Waiting(e) /\ rl_peerClosed[e]

\* A write to the connection to e succeeds while the peer is there; once the
\* peer has closed it may still go through or fail.
WriteOutcomes(e) == IF rl_peerClosed[e] THEN BOOLEAN ELSE {TRUE}

\* A variant of closeShutdown that closes the channel on every call.
MutNoOnce(closes) == TRUE

\* sync.Once.Do runs its function on the first call only.
OnceDo(closes) == closes = 0

\* closeShutdown: shutdownOnce.Do(func() { close(shutdownChan) }).
closeShutdown ==
    /\ rl_shutdown' = TRUE
    /\ rl_once' = [calls |-> rl_once.calls + 1,
                   closes |-> IF OnceDo(rl_once.closes) THEN rl_once.closes + 1
                              ELSE rl_once.closes]

\* PTY relay, goroutine reading from e: the top of the loop, the select on
\* shutdownChan.
PtyLoopTop(e) ==
    /\ rl_kind = "pty"
    /\ rl_g[e] = "top"
    /\ rl_g' = [rl_g EXCEPT ![e] = IF rl_shutdown THEN "done" ELSE "read"]
    /\ UNCHANGED <<notRelay, rl_kind, rl_handler, rl_sent, rl_nread, rl_out,
                   rl_msg, rl_shutdown, rl_once, rl_peerClosed, rl_connClosed>>

\* PTY relay: ReadMessage with no deadline; an error closes shutdownChan.
PtyRead(e) ==
    /\ rl_kind = "pty"
    /\ rl_g[e] = "read"
    /\ \/ /\ Waiting(e)
          /\ rl_msg' = [rl_msg EXCEPT ![e] = rl_sent[e][rl_nread[e] + 1]]
          /\ rl_nread' = [rl_nread EXCEPT ![e] = @ + 1]
          /\ rl_g' = [rl_g EXCEPT ![e] = "write"]
          /\ UNCHANGED <<rl_shutdown, rl_once>>
       \/ /\ ReadFails(e)
          /\ closeShutdown
          /\ rl_g' = [rl_g EXCEPT ![e] = "done"]
          /\ UNCHANGED <<rl_msg, rl_nread>>
    /\ UNCHANGED <<notRelay, rl_kind, rl_handler, rl_sent, rl_out, rl_peerClosed,
                   rl_connClosed>>

\* PTY relay: WriteMessage(mt, msg) to the other endpoint.
PtySend(e) ==
    /\ rl_kind = "pty"
    /\ rl_g[e] = "write"
    /\ \E ok \in WriteOutcomes(Other(e)) :
         IF ok
         THEN /\ rl_out' = [rl_out EXCEPT ![Other(e)] =
                               Append(@, WriteMessage(rl_msg[e]))]
              /\ rl_g' = [rl_g EXCEPT ![e] = "top"]
              /\ UNCHANGED <<rl_shutdown, rl_once>>
         ELSE /\ closeShutdown
              /\ rl_g' = [rl_g EXCEPT ![e] = "done"]
              /\ UNCHANGED rl_out
    /\ rl_msg' = [rl_msg EXCEPT ![e] = NoMsg]
    /\ UNCHANGED <<notRelay, rl_kind, rl_handler, rl_sent, rl_nread,
                   rl_peerClosed, rl_connClosed>>

\* File-watch relay, agent -> client: agentConn.ReadJSON(&event).
WatchRead ==
    /\ rl_kind = "watch"
    /\ rl_g["agent"] = "read"
    /\ \/ /\ Waiting("agent")
          /\ LET m == rl_sent["agent"][rl_nread["agent"] + 1]
             IN IF ReadJSON(m)
                THEN /\ rl_msg' = [rl_msg EXCEPT !["agent"] = m]
                     /\ rl_g' = [rl_g EXCEPT !["agent"] = "write"]
                ELSE /\ rl_g' = [rl_g EXCEPT !["agent"] = "done"]
                     /\ UNCHANGED rl_msg
          /\ rl_nread' = [rl_nread EXCEPT !["agent"] = @ + 1]
       \/ /\ ReadFails("agent")
          /\ rl_g' = [rl_g EXCEPT !["agent"] = "done"]
          /\ UNCHANGED <<rl_msg, rl_nread>>
    /\ UNCHANGED <<notRelay, rl_kind, rl_handler, rl_sent, rl_out, rl_shutdown, rl_once,
                   rl_peerClosed, rl_connClosed>>

\* File-watch relay, agent -> client: clientConn.WriteJSON(event).
WatchSend ==
    /\ rl_kind = "watch"
    /\ rl_g["agent"] = "write"
    /\ \E ok \in WriteOutcomes("client") :
         IF ok
         THEN /\ rl_out' = [rl_out EXCEPT !["client"] =
                               Append(@, WriteJSON(rl_msg["agent"]))]
              /\ rl_g' = [rl_g EXCEPT !["agent"] = "read"]
         ELSE /\ rl_g' = [rl_g EXCEPT !["agent"] = "done"]
              /\ UNCHANGED rl_out
    /\ rl_msg' = [rl_msg EXCEPT !["agent"] = NoMsg]
    /\ UNCHANGED <<notRelay, rl_kind, rl_handler, rl_sent, rl_nread, rl_shutdown, rl_once,
                   rl_peerClosed, rl_connClosed>>

\* File-watch relay, client -> agent: the loop reads and drops the client's
\* messages until ReadMessage fails.
WatchDrain ==
    /\ rl_kind = "watch"
    /\ rl_g["client"] = "read"
    /\ \/ /\ Waiting("client")
          /\ rl_nread' = [rl_nread EXCEPT !["client"] = @ + 1]
          /\ UNCHANGED rl_g
       \/ /\ ReadFails("client")
          /\ rl_g' = [rl_g EXCEPT !["client"] = "done"]
          /\ UNCHANGED rl_nread
    /\ UNCHANGED <<notRelay, rl_kind, rl_handler, rl_sent, rl_out, rl_msg,
                   rl_shutdown, rl_once, rl_peerClosed, rl_connClosed>>

\* A variant whose handler returns, and runs its deferred Close calls, as
\* soon as one direction has returned.
MutHandlerReturnEarly ==
    /\ rl_handler = "relaying"
    /\ \E e \in Endpoints : rl_g[e] = "done"
    /\ rl_handler' = "returned"
    /\ rl_connClosed' = [e \in Endpoints |-> TRUE]
    /\ UNCHANGED <<notRelay, rl_kind, rl_sent, rl_nread, rl_out, rl_g, rl_msg,
                   rl_shutdown, rl_once, rl_peerClosed>>

\* wg.Wait() returns once both goroutines have; the deferred Close calls run.
HandlerReturn ==
    /\ rl_handler = "relaying"
    /\ \A e \in Endpoints : rl_g[e] = "done"
    /\ rl_handler' = "returned"
    /\ rl_connClosed' = [e \in Endpoints |-> TRUE]
    /\ UNCHANGED <<notRelay, rl_kind, rl_sent, rl_nread, rl_out, rl_g, rl_msg,
                   rl_shutdown, rl_once, rl_peerClosed>>

RelayNext ==
    \/ \E k \in {"pty", "watch"}, dialOk \in BOOLEAN : RelayBegin(k, dialOk)
    \/ \E e \in Endpoints : (\E m \in Msgs : PeerSend(e, m)) \/ PeerClose(e)
    \/ \E e \in Endpoints : PtyLoopTop(e) \/ PtyRead(e) \/ PtySend(e)
    \/ WatchRead \/ WatchSend \/ WatchDrain
    \/ HandlerReturn

\* The relay's own steps are taken when they can be: goroutines are scheduled
\* and unblocked calls return. Nothing obliges an endpoint to send or close.
RelayFairness ==
    /\ \A e \in Endpoints :
         WF_vars(PtyLoopTop(e)) /\ WF_vars(PtyRead(e)) /\ WF_vars(PtySend(e))
    /\ WF_vars(WatchRead) /\ WF_vars(WatchSend) /\ WF_vars(WatchDrain)
    /\ WF_vars(HandlerReturn)

-----------------------------------------------------------------------------
(* ============ Snapshots: CreateSnapshot and finalizeSnapshot =========== *)

\* CreateSnapshot names at most MaxSnaps snapshot directories; the state directory of a
\* snapshot has StateEntries entries (the directory itself and its files).
MaxSnaps == 2
StateEntries == 2

Snaps == 1..MaxSnaps
Entries == 1..StateEntries

\* from: the call whose snapshot_temp was moved to state/ (0: none).
NoSnap == [dir |-> FALSE, disk |-> FALSE, state |-> "absent",
           modes |-> [e \in Entries |-> "none"], from |-> 0]
NoCall == [was |-> "none", paused |-> FALSE, resumed |-> FALSE, ret |-> "none"]

\* Modes of the entries of snapshot_temp as they are created: the directory
\* by os.MkdirAll(tempStateDir, 0755), the files by the VMM.
CreatedModes == [e \in Entries |-> IF e = 1 THEN "0755" ELSE "asWritten"]

SnapIdle ==
    /\ sn_pc = "idle"
    /\ sn_id = 0
    /\ sn_n = 0
    /\ sn_call = NoCall
    /\ sn_temp = "absent"
    /\ sn_snap = [k \in Snaps |-> NoSnap]
    /\ sn_fin = [k \in Snaps |-> "none"]

\* The call returns r.
SnReturn(r) ==
    /\ sn_pc' = "idle"
    /\ sn_call' = [sn_call EXCEPT !.ret = r]

\* CreateSnapshot up to the pause: the socket check, GetState, the state test.
SnBegin(id) ==
    /\ sn_pc = "idle"
    /\ sn_n < MaxSnaps
    /\ pc[id] = "done"
    /\ sn_id' = id
    /\ IF "sock" \notin files[id]
       THEN /\ sn_pc' = "idle"
            /\ sn_call' = [NoCall EXCEPT !.ret = "err"]
       ELSE \E r \in GetStateWithContext(vmm[id]) :
              IF r.err \/ r.state \notin {"Running", "Paused"}
              THEN /\ sn_pc' = "idle"
                   /\ sn_call' = [NoCall EXCEPT !.ret = "err"]
              ELSE /\ sn_pc' = IF r.state = "Running" THEN "pause" ELSE "dirs"
                   /\ sn_call' = [NoCall EXCEPT !.was = r.state]
    /\ UNCHANGED <<notSnap, vmm, sn_n, sn_temp, sn_snap, sn_fin>>

\* "Pause if running": client.Send("vm.pause").
SnPause ==
    /\ sn_pc = "pause"
    /\ \E r \in VmmPut(vmm[sn_id], "vm.pause") :
         /\ vmm' = [vmm EXCEPT ![sn_id] = r.next]
         /\ IF Request(r) THEN SnReturn("err")
            ELSE /\ sn_pc' = "dirs"
                 /\ sn_call' = [sn_call EXCEPT !.paused = TRUE]
    /\ UNCHANGED <<notSnap, sn_id, sn_n, sn_temp, sn_snap, sn_fin>>

\* "Prepare directories": MkdirAll of snapshots/<timestamp> (an error
\* returns), then RemoveAll and MkdirAll of snapshot_temp.
SnDirs ==
    /\ sn_pc = "dirs"
    /\ \E ok \in BOOLEAN :
         IF ok
         THEN /\ sn_n' = sn_n + 1
              /\ sn_snap' = [sn_snap EXCEPT ![sn_n + 1].dir = TRUE]
              /\ sn_temp' = "empty"
              /\ sn_pc' = "snapshot"
              /\ UNCHANGED sn_call
         ELSE /\ SnReturn("err")
              /\ UNCHANGED <<sn_n, sn_snap, sn_temp>>
    /\ UNCHANGED <<notSnap, vmm, sn_id, sn_fin>>

\* "Trigger snapshot": the VMM starts to dump its state into snapshot_temp.
SnSnapshotStart ==
    /\ sn_pc = "snapshot"
    /\ sn_pc' = "writing"
    /\ sn_temp' = IF vmm[sn_id] = "Paused" /\ sn_temp = "empty" THEN "partial"
                  ELSE sn_temp
    /\ UNCHANGED <<notSnap, vmm, sn_id, sn_n, sn_call, sn_snap, sn_fin>>

\* client.SendJSON("vm.snapshot") returns. The dump is complete only if the
\* VMM answered success and snapshot_temp stayed in place meanwhile. On an
\* error vm.resume is sent if the sandbox was running, and the call returns.
SnSnapshotEnd ==
    /\ sn_pc = "writing"
    /\ \E r \in VmmPut(vmm[sn_id], "vm.snapshot") :
         /\ sn_temp # "partial" => Request(r)
         /\ IF Request(r)
            THEN /\ sn_pc' = "idle"
                 /\ IF sn_call.was = "Running"
                    THEN \E q \in VmmPut(r.next, "vm.resume") :
                           vmm' = [vmm EXCEPT ![sn_id] = q.next]
                    ELSE vmm' = [vmm EXCEPT ![sn_id] = r.next]
                 /\ sn_call' = [sn_call EXCEPT
                                  !.ret = "err",
                                  !.resumed = (sn_call.was = "Running")]
                 /\ UNCHANGED <<sn_temp, sn_fin>>
            ELSE /\ sn_temp' = "full"
                 /\ sn_pc' = "resume"
                 /\ UNCHANGED <<vmm, sn_call, sn_fin>>
    /\ UNCHANGED <<notSnap, sn_id, sn_n, sn_snap>>

\* "Resume immediately" (an error returns), then `go finalizeSnapshot(...)`
\* and return nil.
SnResume ==
    /\ sn_pc = "resume"
    /\ IF sn_call.was = "Running"
       THEN \E q \in VmmPut(vmm[sn_id], "vm.resume") :
              /\ vmm' = [vmm EXCEPT ![sn_id] = q.next]
              /\ sn_pc' = "idle"
              /\ sn_call' = [sn_call EXCEPT
                               !.resumed = TRUE,
                               !.ret = IF Request(q) THEN "err" ELSE "ok"]
              /\ sn_fin' = IF Request(q) THEN sn_fin
                           ELSE [sn_fin EXCEPT ![sn_n] = "copy"]
       ELSE /\ SnReturn("ok")
            /\ sn_fin' = [sn_fin EXCEPT ![sn_n] = "copy"]
            /\ UNCHANGED vmm
    /\ UNCHANGED <<notSnap, sn_id, sn_n, sn_temp, sn_snap>>

\* finalizeSnapshot: cp of overlay.qcow2 into the snapshot directory.
FinCopy(k) ==
    /\ sn_fin[k] = "copy"
    /\ \E ok \in BOOLEAN :
         /\ sn_snap' = [sn_snap EXCEPT ![k].disk = ok]
         /\ sn_fin' = [sn_fin EXCEPT ![k] = IF ok THEN "rename" ELSE "done"]
    /\ UNCHANGED <<notSnap, vmm, sn_pc, sn_id, sn_n, sn_call, sn_temp>>

\* The call that created the snapshot_temp now on disk: each call removes
\* and recreates the directory, so it is the latest call that got that far.
TempOwner == IF sn_temp = "absent" THEN 0 ELSE sn_n

\* finalizeSnapshot: os.Rename(snapshot_temp, <snapshot>/state). It moves
\* whatever snapshot_temp holds at that moment.
FinRename(k) ==
    /\ sn_fin[k] = "rename"
    /\ \E ok \in BOOLEAN :
         IF ok /\ sn_temp # "absent"
         THEN /\ sn_snap' = [sn_snap EXCEPT ![k].state = sn_temp,
                                            ![k].modes = CreatedModes,
                                            ![k].from = TempOwner]
              /\ sn_temp' = "absent"
              /\ sn_fin' = [sn_fin EXCEPT ![k] = "chmod"]
         ELSE /\ sn_fin' = [sn_fin EXCEPT ![k] = "done"]
              /\ UNCHANGED <<sn_snap, sn_temp>>
    /\ UNCHANGED <<notSnap, vmm, sn_pc, sn_id, sn_n, sn_call>>

\* finalizeSnapshot: one visit of filepath.Walk, os.Chmod(path, 0444) of the
\* next entry; a failed Chmod ends the walk.
FinChmod(k) ==
    /\ sn_fin[k] = "chmod"
    /\ LET todo == {e \in Entries : sn_snap[k].modes[e] # "0444"}
       IN IF todo = {}
          THEN /\ sn_fin' = [sn_fin EXCEPT ![k] = "done"]
               /\ UNCHANGED sn_snap
          ELSE \E ok \in BOOLEAN :
                 LET e == CHOOSE x \in todo : \A y \in todo : x <= y
                 IN IF ok
                    THEN /\ sn_snap' = [sn_snap EXCEPT ![k].modes[e] = "0444"]
                         /\ UNCHANGED sn_fin
                    ELSE /\ sn_fin' = [sn_fin EXCEPT ![k] = "done"]
                         /\ UNCHANGED sn_snap
    /\ UNCHANGED <<notSnap, vmm, sn_pc, sn_id, sn_n, sn_call, sn_temp>>

SnapInit ==
    /\ SnapIdle
    /\ \E v \in [Ids -> {"Running", "Paused"}] : Created(v)

SnapNext ==
    \/ \E id \in Ids : SnBegin(id)
    \/ SnPause \/ SnDirs \/ SnSnapshotStart \/ SnSnapshotEnd \/ SnResume
    \/ \E k \in Snaps : FinCopy(k) \/ FinRename(k) \/ FinChmod(k)

-----------------------------------------------------------------------------
(* ============ machine.Restore calls for one new id ====================== *)

\* Number of Restore calls issued for the same new id (two `restore --id X`
\* commands, or two requests).
MaxCallers == 2
Callers == 1..MaxCallers

\* What an instance directory that existed before the calls holds.
OldDir == {"dir", "old"}

RestIdle ==
    /\ rs_pc = [c \in Callers |-> "idle"]
    /\ rs_dir = {}
    /\ rs_made = [c \in Callers |-> {}]

\* The directory is absent, or it is there from an earlier sandbox.
RestInit ==
    /\ rs_pc = [c \in Callers |-> "idle"]
    /\ rs_dir \in {{}, OldDir}
    /\ rs_made = [c \in Callers |-> {}]

\* A variant of the existence check that also claims the directory, as
\* os.Mkdir would.
MutRsStatClaims(c) ==
    /\ rs_pc[c] = "idle"
    /\ IF "dir" \in rs_dir
       THEN rs_pc' = [rs_pc EXCEPT ![c] = "refused"] /\ UNCHANGED rs_dir
       ELSE rs_pc' = [rs_pc EXCEPT ![c] = "mkdir"] /\ rs_dir' = {"dir"}
    /\ UNCHANGED <<notRest, rs_made>>

\* if _, err := os.Stat(newInstanceDir); err == nil { return error }
RsStat(c) ==
    /\ rs_pc[c] = "idle"
    /\ rs_pc' = [rs_pc EXCEPT ![c] = IF "dir" \in rs_dir THEN "refused" ELSE "mkdir"]
    /\ UNCHANGED <<notRest, rs_dir, rs_made>>

\* os.MkdirAll(newInstanceDir, 0755): succeeds also when the directory is
\* already there.
RsMkdirAll(c) ==
    /\ rs_pc[c] = "mkdir"
    /\ \E ok \in BOOLEAN :
         IF ok
         THEN /\ rs_dir' = rs_dir \cup {"dir"}
              /\ rs_pc' = [rs_pc EXCEPT ![c] = "disk"]
         ELSE /\ rs_pc' = [rs_pc EXCEPT ![c] = "failed"]
              /\ UNCHANGED rs_dir
    /\ UNCHANGED <<notRest, rs_made>>

\* One `cp` into the directory; a failure runs os.RemoveAll(newInstanceDir).
RsCopy(c, entry, nextPc) ==
    \E ok \in BOOLEAN :
        /\ ok => "dir" \in rs_dir
        /\ IF ok
           THEN /\ rs_dir' = rs_dir \cup {entry}
                /\ rs_made' = [rs_made EXCEPT ![c] = @ \cup {"copy"}]
                /\ rs_pc' = [rs_pc EXCEPT ![c] = nextPc]
           ELSE /\ rs_dir' = {}
                /\ rs_pc' = [rs_pc EXCEPT ![c] = "failed"]
                /\ UNCHANGED rs_made

\* cp srcDisk dstDisk, and the branch on `cold`.
RsCopyDisk(c) ==
    /\ rs_pc[c] = "disk"
    /\ \E cold \in BOOLEAN : RsCopy(c, "overlay", IF cold THEN "start" ELSE "state")
    /\ UNCHANGED notRest

\* cp -r srcState dstState (live restore).
RsCopyState(c) ==
    /\ rs_pc[c] = "state"
    /\ RsCopy(c, "state", "start")
    /\ UNCHANGED notRest

\* Start(cfg, spec, dstDisk, dstState) for the id: it creates a TAP and
\* spawns the VMM; its error is returned as it is.
RsStart(c) ==
    /\ rs_pc[c] = "start"
    /\ \E tapOk \in BOOLEAN, spawnOk \in BOOLEAN :
         /\ rs_made' = [rs_made EXCEPT ![c] =
                           @ \cup (IF tapOk THEN {"tap"} ELSE {})
                             \cup (IF tapOk /\ spawnOk THEN {"vmm"} ELSE {})]
         /\ rs_pc' = [rs_pc EXCEPT ![c] = IF tapOk /\ spawnOk THEN "started"
                                          ELSE "failed"]
    /\ UNCHANGED <<notRest, rs_dir>>

RestNext ==
    \E c \in Callers :
        \/ RsStat(c) \/ RsMkdirAll(c) \/ RsCopyDisk(c) \/ RsCopyState(c)
        \/ RsStart(c)

-----------------------------------------------------------------------------
(* ================ FSService: shelled-out guest commands ================= *)

\* Longest path argument, and longest second argument (destination, mode,
\* pattern) of the operations that take two.
MaxPath == 3
MaxArg == 1

\* The bytes of a path that matter to filepath.Clean and to the shell: the
\* separator, an ordinary byte, the single quote and the dot.
PathBytes == {"/", "a", "'", "."}
FsPaths == SeqsUpTo(PathBytes, MaxPath)
FsArgs == SeqsUpTo(PathBytes, MaxArg)

\* The elements of a path between its separators.
RECURSIVE SplitSlash(_)
SplitSlash(s) ==
    LET at == {i \in 1..Len(s) : s[i] = "/"}
    IN IF at = {} THEN <<s>>
       ELSE LET k == CHOOSE i \in at : \A j \in at : i <= j
            IN <<SubSeq(s, 1, k - 1)>> \o SplitSlash(SubSeq(s, k + 1, Len(s)))

\* filepath.Clean's pass over the elements: empty and "." elements are
\* dropped, ".." removes the element before it (at the root it is dropped,
\* at the start of a relative path it is kept).
RECURSIVE CleanElems(_, _, _)
CleanElems(elems, out, rooted) ==
    IF elems = <<>> THEN out
    ELSE LET e == Head(elems)
             next == IF e = <<>> \/ e = <<".">> THEN out
                     ELSE IF e = <<".", ".">>
                     THEN IF out # <<>> /\ out[Len(out)] # <<".", ".">>
                          THEN SubSeq(out, 1, Len(out) - 1)
                          ELSE IF rooted THEN out ELSE Append(out, e)
                     ELSE Append(out, e)
         IN CleanElems(Tail(elems), next, rooted)

RECURSIVE JoinSlash(_)
JoinSlash(elems) ==
    IF elems = <<>> THEN <<>>
    ELSE IF Len(elems) = 1 THEN elems[1]
    ELSE elems[1] \o <<"/">> \o JoinSlash(Tail(elems))

\* filepath.Clean
Clean(p) ==
    IF p = <<>> THEN <<".">>
    ELSE LET rooted == p[1] = "/"
             out == CleanElems(SplitSlash(p), <<>>, rooted)
         IN IF out = <<>> THEN (IF rooted THEN <<"/">> ELSE <<".">>)
            ELSE (IF rooted THEN <<"/">> ELSE <<>>) \o JoinSlash(out)

\* clean := filepath.Clean(p); if !strings.HasPrefix(clean, "/") { clean = "/" + clean }
CleanAbs(p) ==
    LET clean == Clean(p) IN IF clean[1] = "/" THEN clean ELSE <<"/">> \o clean

LastSlash(s) ==
    LET at == {i \in 1..Len(s) : s[i] = "/"}
    IN IF at = {} THEN 0 ELSE CHOOSE i \in at : \A j \in at : j <= i

\* filepath.Dir
Dir(p) == Clean(SubSeq(p, 1, LastSlash(p)))

\* filepath.Base of a cleaned path
Base(p) ==
    IF p = <<>> THEN <<".">>
    ELSE IF p = <<"/">> THEN <<"/">>
    ELSE SubSeq(p, LastSlash(p) + 1, Len(p))

\* strings.ReplaceAll(s, "'", "'\\''")
RECURSIVE ReplaceAllQuotes(_)
ReplaceAllQuotes(s) ==
    IF s = <<>> THEN <<>>
    ELSE (IF Head(s) = "'" THEN <<"'", "\\", "'", "'">> ELSE <<Head(s)>>)
            \o ReplaceAllQuotes(Tail(s))

\* The '%s' of the format strings.
InQuotes(s) == <<"'">> \o s \o <<"'">>

\* fmt.Sprintf of a format whose pieces are separated by single blanks; a
\* word of the format without a verb is one symbol.
RECURSIVE Sprintf(_)
Sprintf(pieces) ==
    IF pieces = <<>> THEN <<>>
    ELSE IF Len(pieces) = 1 THEN pieces[1]
    ELSE pieces[1] \o <<" ">> \o Sprintf(Tail(pieces))

\* strings.HasSuffix(archive, ext), the extension being one symbol.
HasSuffix(s, ext) == s # <<>> /\ s[Len(s)] = ext

\* HeadTail's clamp of `lines`, printed with %d.
LinesArg(n) == IF n <= 0 THEN "10" ELSE IF n > 10000 THEN "10000" ELSE ToString(n)

NoReq == [op |-> "none", path |-> <<>>, arg |-> <<>>, opt |-> "none", lines |-> 0]
NoCmd == [err |-> FALSE, cmd |-> <<>>]

Req(op, path, arg, opt, lines) ==
    [op |-> op, path |-> path, arg |-> arg, opt |-> opt, lines |-> lines]

\* The calls: every operation with every path, and with every second
\* argument, format, extension and line count.
Requests ==
    {Req(op, p, <<>>, "none", 0) :
        op \in {"DeleteFile", "CreateDirectory", "CreateFile", "StatFile", "DiskUsage"},
        p \in FsPaths}
    \cup {Req(op, p, a, "none", 0) :
        op \in {"MoveFile", "CopyFile", "ChangePermissions", "SearchFiles"},
        p \in FsPaths, a \in FsArgs}
    \cup {Req("HeadTail", p, <<>>, o, n) :
        p \in FsPaths, o \in {"head", "tail"}, n \in {0, 5, 10001}}
    \cup {Req("CompressFile", p, <<>>, f, 0) :
        p \in FsPaths, f \in {"tar", "tar.gz", "zip", "rar"}}
    \cup {Req("ExtractArchive", p \o <<x>>, a, "none", 0) :
        p \in FsPaths, a \in FsArgs, x \in {".tar.gz", ".tgz", ".tar", ".zip", "a"}}

FsIdle == fs_req = NoReq /\ fs_cmd = NoCmd

FsInit == fs_req \in Requests /\ fs_cmd = NoCmd

\* The operation returns the command string it posts to the agent's exec.
Returns(cmd) ==
    /\ fs_cmd = NoCmd
    /\ fs_cmd' = cmd
    /\ UNCHANGED <<notFs, fs_req>>

Ok(pieces) == [err |-> FALSE, cmd |-> Sprintf(pieces)]
Unsupported == [err |-> TRUE, cmd |-> <<>>]

DeleteFile ==
    /\ fs_req.op = "DeleteFile"
    /\ LET clean == CleanAbs(fs_req.path)
       IN Returns(Ok(<< <<"rm">>, <<"-rf">>, InQuotes(ReplaceAllQuotes(clean)) >>))

CreateDirectory ==
    /\ fs_req.op = "CreateDirectory"
    /\ LET clean == CleanAbs(fs_req.path)
       IN Returns(Ok(<< <<"mkdir">>, <<"-p">>, InQuotes(ReplaceAllQuotes(clean)) >>))

CreateFile ==
    /\ fs_req.op = "CreateFile"
    /\ LET clean == CleanAbs(fs_req.path)
           esc == ReplaceAllQuotes(clean)
           dirEsc == ReplaceAllQuotes(Dir(clean))
       IN Returns(Ok(<< <<"mkdir">>, <<"-p">>, InQuotes(dirEsc), <<"&&">>,
                        <<"touch">>, InQuotes(esc) >>))

\* `mkdir -p '<dstDir>' && <tool> '<src>' '<dst>'` of MoveFile and CopyFile.
IntoDest(tool, flag) ==
    LET src == CleanAbs(fs_req.path)
        dst == CleanAbs(fs_req.arg)
    IN Ok(<< <<"mkdir">>, <<"-p">>, InQuotes(ReplaceAllQuotes(Dir(dst))), <<"&&">>,
             <<tool>>, <<flag>>, InQuotes(ReplaceAllQuotes(src)),
             InQuotes(ReplaceAllQuotes(dst)) >>)

MoveFile ==
    /\ fs_req.op = "MoveFile"
    /\ Returns(IntoDest("mv", "-f"))

StatFile ==
    /\ fs_req.op = "StatFile"
    /\ LET clean == CleanAbs(fs_req.path)
       IN Returns(Ok(<< <<"stat">>, <<"-c">>, InQuotes(<<"{format}">>),
                        InQuotes(ReplaceAllQuotes(clean)) >>))

CopyFile ==
    /\ fs_req.op = "CopyFile"
    /\ Returns(IntoDest("cp", "-r"))

HeadTail ==
    /\ fs_req.op = "HeadTail"
    /\ LET clean == CleanAbs(fs_req.path)
       IN Returns(Ok(<< <<fs_req.opt>>, <<"-n">>, <<LinesArg(fs_req.lines)>>,
                        InQuotes(ReplaceAllQuotes(clean)) >>))

ChangePermissions ==
    /\ fs_req.op = "ChangePermissions"
    /\ LET clean == CleanAbs(fs_req.path)
       IN Returns(Ok(<< <<"chmod">>, InQuotes(ReplaceAllQuotes(fs_req.arg)),
                        InQuotes(ReplaceAllQuotes(clean)) >>))

DiskUsage ==
    /\ fs_req.op = "DiskUsage"
    /\ LET clean == CleanAbs(fs_req.path)
       IN Returns(Ok(<< <<"du">>, <<"-sh">>, InQuotes(ReplaceAllQuotes(clean)) >>))

SearchFiles ==
    /\ fs_req.op = "SearchFiles"
    /\ LET clean == CleanAbs(fs_req.path)
       IN Returns(Ok(<< <<"find">>, InQuotes(ReplaceAllQuotes(clean)), <<"-name">>,
                        InQuotes(<<"*">> \o ReplaceAllQuotes(fs_req.arg) \o <<"*">>),
                        <<"-type">>, <<"f">>, <<"2>/dev/null">>, <<"|">>,
                        <<"head">>, <<"-100">> >>))

\* The tar formats print clean, filepath.Dir(clean) and baseName as they are,
\* zip prints clean as it is for the archive and srcEsc for the source.
CompressFile ==
    /\ fs_req.op = "CompressFile"
    /\ LET clean == CleanAbs(fs_req.path)
           srcEsc == ReplaceAllQuotes(clean)
           baseName == Base(clean)
           tar(flag, ext) ==
               Ok(<< <<"tar">>, <<flag>>, InQuotes(clean \o <<ext>>), <<"-C">>,
                     InQuotes(Dir(clean)), InQuotes(baseName) >>)
       IN Returns(CASE fs_req.opt = "tar" -> tar("-cf", ".tar")
                    [] fs_req.opt = "tar.gz" -> tar("-czf", ".tar.gz")
                    [] fs_req.opt = "zip" ->
                           Ok(<< <<"zip">>, <<"-r">>, InQuotes(clean \o <<".zip">>),
                                 InQuotes(srcEsc) >>)
                    [] OTHER -> Unsupported)

ExtractArchive ==
    /\ fs_req.op = "ExtractArchive"
    /\ LET archive == CleanAbs(fs_req.path)
           dest == CleanAbs(fs_req.arg)
           archiveEsc == ReplaceAllQuotes(archive)
           destEsc == ReplaceAllQuotes(dest)
           into(tool, flag, dflag) ==
               Ok(<< <<"mkdir">>, <<"-p">>, InQuotes(destEsc), <<"&&">>, <<tool>>,
                     <<flag>>, InQuotes(archiveEsc), <<dflag>>, InQuotes(destEsc) >>)
       IN Returns(IF HasSuffix(archive, ".tar.gz") \/ HasSuffix(archive, ".tgz")
                  THEN into("tar", "-xzf", "-C")
                  ELSE IF HasSuffix(archive, ".tar") THEN into("tar", "-xf", "-C")
                  ELSE IF HasSuffix(archive, ".zip") THEN into("unzip", "-q", "-d")
                  ELSE Unsupported)

FsNext ==
    \/ DeleteFile \/ CreateDirectory \/ CreateFile \/ MoveFile \/ StatFile
    \/ CopyFile \/ HeadTail \/ ChangePermissions \/ DiskUsage \/ SearchFiles
    \/ CompressFile \/ ExtractArchive

-----------------------------------------------------------------------------
(* ======== Create: kernel command line and caller environment =========== *)

\* Two Create requests that differ only in EnvVars.
Runs == {1, 2}

\* The EnvVars maps, as the set of their entries.
EnvEntries == {"A=1", "B=2"}

KcIdle ==
    /\ kc_in = [ip |-> <<>>, debug |-> FALSE]
    /\ kc_env = [r \in Runs |-> {}]
    /\ kc_pc = [r \in Runs |-> "idle"]
    /\ kc_cmd = [r \in Runs |-> <<>>]
    /\ kc_cfg = [r \in Runs |-> <<>>]
    /\ kc_agent = [r \in Runs |-> {}]

\* The requests arrive: same address from the allocator, same configuration
\* (cfg.Sandbox.DebugBootConsole), any EnvVars.
KcInit ==
    /\ kc_in \in [ip : CidrAddrs, debug : BOOLEAN]
    /\ kc_env \in [Runs -> SUBSET EnvEntries]
    /\ kc_pc = [r \in Runs |-> "create"]
    /\ kc_cmd = [r \in Runs |-> <<>>]
    /\ kc_cfg = [r \in Runs |-> <<>>]
    /\ kc_agent = [r \in Runs |-> {}]

\* SandboxService.Create: spec := model.SandboxSpec{ID, Type, CPUs, MemoryMB,
\* DiskMB, IPAddress}; req.EnvVars is not copied into it.
SandboxSpec(r) == [IPAddress |-> kc_in.ip, CPUs |-> "cpu", MemoryMB |-> "mem"]

\* Start, fresh boot: kernelIPArgs, `envVars := ""`, consoleArgs and the
\* fmt.Sprintf of cmdLine, held as the three values the format prints around
\* its fixed text.
CmdLine(debug, spec) ==
    LET kernelIPArgs == <<"ip=", spec.IPAddress, "gateway", "netmask", "voidrun",
                          "eth0", "off">>
        envVars == {}
        consoleArgs == IF debug THEN <<"console=ttyS0", "console=hvc0">>
                       ELSE <<"console=hvc0">>
    IN [consoleArgs |-> consoleArgs,
        fixed |-> "root=/dev/vda rw init=/sbin/init net.ifnames=0 biosdevname=0",
        kernelIPArgs |-> kernelIPArgs,
        envVars |-> envVars]

\* Start, fresh boot: the CLHConfig beside the payload.
VmmConfig(debug, spec) ==
    [Cpus |-> spec.CPUs, Memory |-> spec.MemoryMB,
     Serial |-> IF debug THEN "Tty" ELSE "Null",
     Console |-> IF debug THEN "Tty" ELSE "Null",
     Cid |-> getCidFromIP(spec.IPAddress)]

\* A variant of Start with the retired `envVars := spec.EnvVars`, fed by a
\* spec that carries the request's EnvVars.
MutKcStartEnv(r) ==
    /\ kc_pc[r] = "create"
    /\ kc_cmd' = [kc_cmd EXCEPT ![r] =
                     [CmdLine(kc_in.debug, SandboxSpec(r)) EXCEPT !.envVars = kc_env[r]]]
    /\ kc_cfg' = [kc_cfg EXCEPT ![r] = VmmConfig(kc_in.debug, SandboxSpec(r))]
    /\ \E ok \in BOOLEAN :
         kc_pc' = [kc_pc EXCEPT ![r] = IF ok THEN "booted" ELSE "failed"]
    /\ UNCHANGED <<notKc, kc_in, kc_env, kc_agent>>

\* Create up to the readiness gate: the spec, machine.Start with vm.create
\* carrying cmdLine and the configuration, vm.boot, waitForAgent.
KcStart(r) ==
    /\ kc_pc[r] = "create"
    /\ kc_cmd' = [kc_cmd EXCEPT ![r] = CmdLine(kc_in.debug, SandboxSpec(r))]
    /\ kc_cfg' = [kc_cfg EXCEPT ![r] = VmmConfig(kc_in.debug, SandboxSpec(r))]
    /\ \E ok \in BOOLEAN :
         kc_pc' = [kc_pc EXCEPT ![r] = IF ok THEN "booted" ELSE "failed"]
    /\ UNCHANGED <<notKc, kc_in, kc_env, kc_agent>>

\* Create after boot: setAgentEnvVars when len(req.EnvVars) > 0 (POST /env to
\* the agent; a failure is only logged), then the record is saved.
KcSetEnv(r) ==
    /\ kc_pc[r] = "booted"
    /\ \E ok \in BOOLEAN :
         kc_agent' = [kc_agent EXCEPT ![r] =
                         IF kc_env[r] # {} /\ ok THEN kc_env[r] ELSE @]
    /\ kc_pc' = [kc_pc EXCEPT ![r] = "done"]
    /\ UNCHANGED <<notKc, kc_in, kc_env, kc_cmd, kc_cfg>>

KcNext == \E r \in Runs : KcStart(r) \/ KcSetEnv(r)

-----------------------------------------------------------------------------
(* ================ API keys: ValidateKey and its cache =================== *)

\* The clock runs to MaxTime ticks; cacheTTL is KeyTTL ticks.
MaxTime == 4
KeyTTL == 2

\* Requests that validate the same plaintext key at the same time.
MaxValidators == 2
Validators == 1..MaxValidators

NotRevoked == [at |-> -1, limit |-> -1]

AkIdle ==
    /\ ak_now = 0
    /\ ak_store = "none"
    /\ ak_cache = -1
    /\ ak_pc = [c \in Validators |-> "idle"]
    /\ ak_rev = NotRevoked
    /\ ak_okAt = -1

\* A key was generated and is active; nothing is cached yet.
AkInit ==
    /\ ak_now = 0
    /\ ak_store = "active"
    /\ ak_cache = -1
    /\ ak_pc = [c \in Validators |-> "idle"]
    /\ ak_rev = NotRevoked
    /\ ak_okAt = -1

\* Time passes.
AkTick ==
    /\ ak_now < MaxTime
    /\ ak_now' = ak_now + 1
    /\ UNCHANGED <<notAk, ak_store, ak_cache, ak_pc, ak_rev, ak_okAt>>

\* `exists && time.Now().Before(entry.expiresAt)`
CacheHit == ak_cache # -1 /\ ak_now < ak_cache

\* A ValidateKey that succeeds now; it counts when the key was revoked before
\* the call began.
Succeeds(begunAfterRevocation) ==
    ak_okAt' = IF begunAfterRevocation THEN ak_now ELSE ak_okAt

\* ValidateKey, first half: the cache lookup under the read lock, and on a
\* miss repo.FindActive with the search for the matching hash.
ValidateLookup(c) ==
    /\ ak_pc[c] = "idle"
    /\ ak_store # "none"
    /\ IF CacheHit
       THEN /\ Succeeds(ak_rev.at # -1)
            /\ UNCHANGED ak_pc
       ELSE /\ ak_pc' = [ak_pc EXCEPT ![c] =
                  IF ak_store = "active" THEN "found" ELSE "idle"]
            /\ UNCHANGED ak_okAt
    /\ UNCHANGED <<notAk, ak_now, ak_store, ak_cache, ak_rev>>

\* ValidateKey, second half: the entry is stored under the write lock with
\* expiresAt = time.Now().Add(cacheTTL), and the key is returned.
ValidateInsert(c) ==
    /\ ak_pc[c] = "found"
    /\ ak_cache' = ak_now + KeyTTL
    /\ ak_pc' = [ak_pc EXCEPT ![c] = "idle"]
    /\ UNCHANGED <<notAk, ak_now, ak_store, ak_rev, ak_okAt>>

\* RevokeKey (repo.Delete) and DeactivateKey (isActive: false): neither
\* touches keyCache.
RevokeOrDeactivate(to) ==
    /\ ak_store' = to
    /\ ak_rev' = [at |-> ak_now, limit |-> IF CacheHit THEN ak_cache ELSE ak_now]
    /\ UNCHANGED <<notAk, ak_now, ak_cache, ak_pc, ak_okAt>>

RevokeKey ==
    /\ ak_store = "active"
    /\ RevokeOrDeactivate("deleted")

DeactivateKey ==
    /\ ak_store = "active"
    /\ RevokeOrDeactivate("inactive")

AkNext ==
    \/ AkTick \/ RevokeKey \/ DeactivateKey
    \/ \E c \in Validators : ValidateLookup(c) \/ ValidateInsert(c)

-----------------------------------------------------------------------------
(* ============== One reconciler worker and what it is told ============== *)

\* State names a vm.info answer may carry, in the spellings the switch
\* distinguishes and some it does not.
InfoStates ==
    {"Running", "running", "RUNNING", "RunningVirtualized", "runningvirtualized",
     "RUNNINGVIRTUALIZED", "Paused", "paused", "PAUSED", "Loaded", "loaded",
     "Created", "Shutdown", ""}

\* Why GetStateWithContext returns an error: the dial is refused, the 2 s
\* context expires, the status is not 200, the body does not decode.
InfoErrors == {"refused", "timeout", "status", "decode"}

\* Everything GetStateWithContext may return: [err, state].
InfoAnswers ==
    {[err |-> FALSE, state |-> s, why |-> "none"] : s \in InfoStates}
    \cup {[err |-> TRUE, state |-> "", why |-> w] : w \in InfoErrors}

NotAsked == [err |-> FALSE, state |-> "", why |-> "notcalled"]

Statuses == {"running", "paused", "stopped"}

\* No worker is being followed.
WkIdle ==
    /\ wk_sb = "none" /\ wk_sock = FALSE /\ wk_pc = "idle"
    /\ wk_info = NotAsked /\ wk_new = "stopped" /\ wk_updates = <<>>

\* The goroutine starts with sb and socketExists captured and
\* newState := "stopped". The fast path has kept stopped records without a
\* socket away from it.
WkInit ==
    /\ wk_sb \in Statuses
    /\ wk_sock \in BOOLEAN
    /\ ~(wk_sb = "stopped" /\ ~wk_sock)
    /\ wk_pc = "probe"
    /\ wk_info = NotAsked
    /\ wk_new = "stopped"
    /\ wk_updates = <<>>

\* if socketExists { vmState, err := client.GetStateWithContext(apiCtx) ... }
WkProbe ==
    /\ wk_pc = "probe"
    /\ IF wk_sock
       THEN \E r \in InfoAnswers :
              /\ wk_info' = r
              /\ wk_new' = MapState(r)
       ELSE UNCHANGED <<wk_info, wk_new>>
    /\ wk_pc' = "write"
    /\ UNCHANGED <<notWk, wk_sb, wk_sock, wk_updates>>

\* if sb.Status != newState { s.repo.UpdateStatus(ctx, sb.ID, newState) }
WkWrite ==
    /\ wk_pc = "write"
    /\ wk_updates' = IF NeedsWrite(wk_sb, wk_new)
                     THEN Append(wk_updates, wk_new) ELSE wk_updates
    /\ wk_pc' = "done"
    /\ UNCHANGED <<notWk, wk_sb, wk_sock, wk_info, wk_new>>

WkNext == WkProbe \/ WkWrite

-----------------------------------------------------------------------------
(* ================== machine.Restore: live and cold ===================== *)

\* No Restore call is being followed.
RmIdle ==
    /\ rm_in = [cold |-> FALSE, ip |-> <<>>, debug |-> FALSE]
    /\ rm_pc = "idle"
    /\ rm_copied = {}
    /\ rm_sent = <<>>

\* Restore(cfg, newID, snapshotPath, ip, cold) is called for a new id.
RmInit ==
    /\ rm_in \in [cold : BOOLEAN, ip : CidrAddrs, debug : BOOLEAN]
    /\ rm_pc = "disk"
    /\ rm_copied = {}
    /\ rm_sent = <<>>

\* A variant that names the state directory in both modes.
MutDstStateAlways(cold) == "snapshot_state"

\* `var dstState string`, assigned in the `if !cold` branch only.
DstState(cold) == IF cold THEN "" ELSE "snapshot_state"

\* An error return; a failed copy has run os.RemoveAll(newInstanceDir).
RmFail(copied) ==
    /\ rm_pc' = "failed"
    /\ rm_copied' = copied
    /\ UNCHANGED rm_sent

\* One request to the VMM API: sent, then answered or not.
RmSend(req, okPc) ==
    /\ rm_sent' = Append(rm_sent, req)
    /\ \E ok \in BOOLEAN : rm_pc' = IF ok THEN okPc ELSE "failed"
    /\ UNCHANGED rm_copied

\* The directory check, MkdirAll and `cp srcDisk dstDisk`.
RmCopyDisk ==
    /\ rm_pc = "disk"
    /\ \E ok \in BOOLEAN :
         IF ok
         THEN /\ rm_copied' = {"overlay"}
              /\ rm_pc' = IF rm_in.cold THEN "start" ELSE "state"
              /\ UNCHANGED rm_sent
         ELSE RmFail({})
    /\ UNCHANGED <<notRm, rm_in>>

\* `if !cold`: cp -r srcState dstState.
RmCopyState ==
    /\ rm_pc = "state"
    /\ \E ok \in BOOLEAN :
         IF ok
         THEN /\ rm_copied' = rm_copied \cup {"state"}
              /\ rm_pc' = "start"
              /\ UNCHANGED rm_sent
         ELSE RmFail({})
    /\ UNCHANGED <<notRm, rm_in>>

\* Start(cfg, spec, dstDisk, dstState) up to its first request: TAP, spawn
\* and WaitForSocket, then vm.restore when restorePath is not empty and
\* vm.create with the fresh-boot configuration otherwise.
RmStartConfig ==
    /\ rm_pc = "start"
    /\ \E up \in BOOLEAN :
         IF ~up THEN RmFail(rm_copied)
         ELSE IF DstState(rm_in.cold) # ""
         THEN RmSend([ep |-> "vm.restore", source |-> DstState(rm_in.cold)], "after")
         ELSE RmSend([ep |-> "vm.create",
                      cmdLine |-> CmdLine(rm_in.debug, [IPAddress |-> rm_in.ip])],
                     "boot")
    /\ UNCHANGED <<notRm, rm_in>>

\* Start, fresh boot: vm.boot.
RmStartBoot ==
    /\ rm_pc = "boot"
    /\ RmSend([ep |-> "vm.boot"], "after")
    /\ UNCHANGED <<notRm, rm_in>>

\* After Start: `if !cold` WaitForSocket and vm.resume, whose error is only
\* logged; then return nil.
RmAfterStart ==
    /\ rm_pc = "after"
    /\ IF rm_in.cold
       THEN rm_pc' = "done" /\ UNCHANGED <<rm_copied, rm_sent>>
       ELSE \E sock \in BOOLEAN :
              IF sock
              THEN /\ rm_sent' = Append(rm_sent, [ep |-> "vm.resume"])
                   /\ rm_pc' = "done"
                   /\ UNCHANGED rm_copied
              ELSE RmFail(rm_copied)
    /\ UNCHANGED <<notRm, rm_in>>

RmNext == RmCopyDisk \/ RmCopyState \/ RmStartConfig \/ RmStartBoot \/ RmAfterStart

-----------------------------------------------------------------------------
(* =================== Create: the readiness gate ======================== *)

\* The clock counts in units of the pause between two probes. waitForAgent is
\* called with a deadline of ReadyDeadline units; each probe runs under a
\* context of ProbeTimeout units; the model follows the clock to MaxClock.
ReadyDeadline == 2
ProbeTimeout == 1
ProbeSleep == 1
MaxClock == ReadyDeadline + ProbeTimeout + ProbeSleep + 1

NoProbe == [n |-> 0, start |-> -1, ansAt |-> -1]

\* No Create is at its readiness gate.
RaIdle ==
    /\ ra_in = [sync |-> FALSE, upAt |-> 0]
    /\ ra_now = 0
    /\ ra_pc = "idle"
    /\ ra_probe = NoProbe
    /\ ra_out = [vmm |-> "none", dir |-> FALSE, rec |-> "none", ret |-> "none"]

\* machine.Start has returned nil: the VMM runs and the instance directory
\* is there. The agent answers from upAt on (past MaxClock: never).
RaInit ==
    /\ ra_in \in [sync : BOOLEAN, upAt : 0..(MaxClock + 1)]
    /\ ra_now = 0
    /\ ra_pc = "gate"
    /\ ra_probe = NoProbe
    /\ ra_out = [vmm |-> "Running", dir |-> TRUE, rec |-> "none", ret |-> "none"]

\* syncEnabled := true; if req.Sync != nil { syncEnabled = *req.Sync };
\* waitForAgent sets deadline := time.Now().Add(timeout).
RaGate ==
    /\ ra_pc = "gate"
    /\ ra_pc' = IF ra_in.sync THEN "loop" ELSE "persist"
    /\ UNCHANGED <<notRa, ra_in, ra_now, ra_probe, ra_out>>

\* time.Now().After(deadline)
PastDeadline(now) == now > ReadyDeadline

\* A variant of the gate that lets Create go on after a timeout.
MutGateIgnoresTimeout == "persist"

\* `if err := waitForAgent(...); err != nil { machine.Stop; cleanup(); return }`
AfterTimeout == "rollback"

\* waitForAgent, top of the loop: the deadline check, then a probe begins
\* under context.WithTimeout.
RaLoopTop ==
    /\ ra_pc = "loop"
    /\ IF PastDeadline(ra_now)
       THEN ra_pc' = AfterTimeout /\ UNCHANGED ra_probe
       ELSE /\ ra_pc' = "probing"
            /\ ra_probe' = [ra_probe EXCEPT !.n = @ + 1, !.start = ra_now]
    /\ UNCHANGED <<notRa, ra_in, ra_now, ra_out>>

\* AgentCommand(ctx, nil, vmID, nil, "", GET) returns at some time t within
\* the probe's context: with an answer if the agent was up by then, with an
\* error otherwise, followed by time.Sleep.
RaProbeEnd ==
    /\ ra_pc = "probing"
    /\ \E t \in ra_probe.start..(ra_probe.start + ProbeTimeout) :
         IF ra_in.upAt <= t
         THEN /\ ra_now' = t
              /\ ra_probe' = [ra_probe EXCEPT !.ansAt = t]
              /\ ra_pc' = "persist"
         ELSE /\ ra_now' = t + ProbeSleep
              /\ ra_pc' = "loop"
              /\ UNCHANGED ra_probe
    /\ UNCHANGED <<notRa, ra_in, ra_out>>

\* machine.Stop(spec.ID); cleanup(); return the error.
RaRollback ==
    /\ ra_pc = "rollback"
    /\ ra_pc' = "returned"
    /\ ra_out' = [vmm |-> "Exited", dir |-> FALSE, rec |-> ra_out.rec, ret |-> "error"]
    /\ UNCHANGED <<notRa, ra_in, ra_now, ra_probe>>

\* s.repo.Create(ctx, sandbox); an error runs machine.Stop and cleanup().
RaPersist ==
    /\ ra_pc = "persist"
    /\ ra_pc' = "returned"
    /\ \E ok \in BOOLEAN :
         ra_out' = IF ok THEN [ra_out EXCEPT !.rec = "running", !.ret = "ok"]
                   ELSE [vmm |-> "Exited", dir |-> FALSE, rec |-> "none", ret |-> "error"]
    /\ UNCHANGED <<notRa, ra_in, ra_now, ra_probe>>

RaNext == RaGate \/ RaLoopTop \/ RaProbeEnd \/ RaRollback \/ RaPersist

-----------------------------------------------------------------------------
(* ============= ValidateKey: presented keys and the cache =============== *)

\* Plaintext keys a caller may present: two that were generated, one that
\* never was.
Plaintexts == {"vr_one", "vr_two", "vr_bad"}

\* util.HashAPIKey, as the value only its own plaintext verifies against.
HashAPIKey(plain) == <<"bcrypt", plain>>

\* The records of the two generated keys.
KeyRecords == {[id |-> 1, hash |-> HashAPIKey("vr_one")],
               [id |-> 2, hash |-> HashAPIKey("vr_two")]}

NoEntry == [key |-> [id |-> 0, hash |-> <<>>], fresh |-> FALSE]
NoValidate == [plain |-> "none", ret |-> "none", n |-> 0]

\* ValidateKey has not been called.
KvIdle ==
    /\ kv_store = {}
    /\ kv_cache = [p \in Plaintexts |-> NoEntry]
    /\ kv_last = NoValidate

KvInit ==
    /\ kv_store \in SUBSET KeyRecords
    /\ kv_cache = [p \in Plaintexts |-> NoEntry]
    /\ kv_last = NoValidate

\* A variant of the comparison that accepts any key.
MutVerifyAny(providedKey, hash) == TRUE

\* util.VerifyAPIKey: bcrypt.CompareHashAndPassword succeeds.
VerifyAPIKey(providedKey, hash) == hash = HashAPIKey(providedKey)

\* `for _, key := range keys { if util.VerifyAPIKey(plainKey, key.Hash) {`:
\* the records that match, of which the loop takes the first it meets.
Matching(plainKey) == {k \in kv_store : VerifyAPIKey(plainKey, k.hash)}

\* What the call returned; calls are numbered up to two.
Returned(plainKey, r) ==
    kv_last' = [plain |-> plainKey, ret |-> r,
                n |-> IF kv_last.n < 2 THEN kv_last.n + 1 ELSE 2]

\* ValidateKey(ctx, plainKey): a fresh cache entry is returned; otherwise
\* FindActive and the loop, which caches and returns a matching record, and
\* `invalid api key` after the loop.
ValidateKey(plainKey) ==
    IF kv_cache[plainKey] # NoEntry /\ kv_cache[plainKey].fresh
    THEN /\ Returned(plainKey, "ok")
         /\ UNCHANGED <<notKv, kv_store, kv_cache>>
    ELSE IF Matching(plainKey) # {}
    THEN /\ \E k \in Matching(plainKey) :
              kv_cache' = [kv_cache EXCEPT ![plainKey] = [key |-> k, fresh |-> TRUE]]
         /\ Returned(plainKey, "ok")
         /\ UNCHANGED <<notKv, kv_store>>
    ELSE /\ Returned(plainKey, "err")
         /\ UNCHANGED <<notKv, kv_store, kv_cache>>

\* The entry of plain reaches its expiresAt.
KvExpire(plain) ==
    /\ kv_cache[plain] # NoEntry /\ kv_cache[plain].fresh
    /\ kv_cache' = [kv_cache EXCEPT ![plain].fresh = FALSE]
    /\ UNCHANGED <<notKv, kv_store, kv_last>>

\* RevokeKey / DeactivateKey of one record: it leaves FindActive's answer.
KvRevoke(k) ==
    /\ k \in kv_store
    /\ kv_store' = kv_store \ {k}
    /\ UNCHANGED <<notKv, kv_cache, kv_last>>

KvNext ==
    \/ \E plain \in Plaintexts : ValidateKey(plain) \/ KvExpire(plain)
    \/ \E k \in KeyRecords : KvRevoke(k)

-----------------------------------------------------------------------------
(* ================ Call sites of the CONNECT handshake ================== *)

\* Call sites that obtain their connection from machine.DialVsock.
DialVsockPaths ==
    {"AgentTransport", "WebSocketDialer", "SessionExec", "LegacyExec", "ReadinessProbe"}

\* Call sites that write "CONNECT 1024\n" and read the reply themselves.
InlinePaths == {"SandboxService.UploadFile", "SandboxService.executeCommandInVM"}

HandshakePaths == DialVsockPaths \cup InlinePaths

\* Replies the agent side may have queued: the short streams only.
HsStreams == SeqsUpTo(Bytes, MaxStream)

\* No call site is running.
HsIdle == hs_path = "none"

HsInit ==
    /\ hs_path \in HandshakePaths
    /\ vs_stream \in HsStreams
    /\ vs_pos = 0
    /\ vs_line = <<>>
    /\ vs_pc = IF hs_path \in InlinePaths THEN "inline" ELSE "dial"
    /\ vs_conn = "none"
    /\ vs_deadline = FALSE
    /\ vs_ret = "none"

\* A step of DialVsock on behalf of one of its callers.
ViaDialVsock ==
    /\ hs_path \in DialVsockPaths
    /\ (VsDial \/ VsReadByte \/ VsValidate)

\* net.DialTimeout, SetDeadline and the CONNECT write of the inline call
\* sites; conn.Close is deferred once the dial succeeded.
InlineDial ==
    /\ UNCHANGED notVsock
    /\ hs_path \in InlinePaths
    /\ vs_pc = "inline"
    /\ \E dialOk \in BOOLEAN, writeOk \in BOOLEAN :
         IF ~dialOk
         THEN /\ vs_pc' = "done" /\ vs_ret' = "error"
              /\ UNCHANGED <<vs_conn, vs_deadline>>
         ELSE IF ~writeOk
         THEN /\ vs_pc' = "done" /\ vs_ret' = "error"
              /\ vs_conn' = "closed" /\ vs_deadline' = TRUE
         ELSE /\ vs_pc' = "inline_read"
              /\ vs_conn' = "open" /\ vs_deadline' = TRUE
              /\ UNCHANGED vs_ret
    /\ UNCHANGED <<vs_stream, vs_pos, vs_line>>

\* buf := make([]byte, 32); n, err := conn.Read(buf): one read that returns
\* however many of the queued bytes the socket hands over, up to 32; then
\* strings.HasPrefix(string(buf[:n]), "OK") and the request is sent on conn.
InlineRead ==
    /\ UNCHANGED notVsock
    /\ hs_path \in InlinePaths
    /\ vs_pc = "inline_read"
    /\ IF vs_pos >= Len(vs_stream)
       THEN VsFail /\ UNCHANGED <<vs_stream, vs_pos, vs_line, vs_deadline>>
       ELSE \E n \in 1..BulkBuf :
              /\ n <= Len(vs_stream) - vs_pos
              /\ vs_pos' = vs_pos + n
              /\ vs_line' = SubSeq(vs_stream, vs_pos + 1, vs_pos + n)
              /\ IF HasPrefixOK(vs_line')
                 THEN /\ vs_pc' = "done"
                      /\ vs_ret' = "conn"
                      /\ UNCHANGED vs_conn
                 ELSE VsFail
              /\ UNCHANGED <<vs_stream, vs_deadline>>

HsNext == ViaDialVsock \/ InlineDial \/ InlineRead

-----------------------------------------------------------------------------
(* ================= Shared HTTP clients for the agent ==================== *)

\* Goroutines that call for a shared client before any has been stored
\* (NewFSService, NewExecService, AgentCommand with a nil client, ...).
MaxGetters == 2
Getters == 1..MaxGetters

\* VMHTTPClient and SandboxHTTPClient: two package variables, same code.
ClientKinds == {"VMHTTPClient", "SandboxHTTPClient"}
ClientEntries == {"Get", "Init"}

\* The pointer value nil.
NilClient == 0

HcIdle ==
    /\ hc_client = [k \in ClientKinds |-> NilClient]
    /\ hc_call = [c \in Getters |-> [kind |-> "VMHTTPClient", entry |-> "Init"]]
    /\ hc_pc = [c \in Getters |-> "done"]
    /\ hc_built = [c \in Getters |-> FALSE]
    /\ hc_got = [c \in Getters |-> NilClient]

\* Every caller is inside its first call; nothing has been stored yet.
HcInit ==
    /\ hc_client = [k \in ClientKinds |-> NilClient]
    /\ hc_call \in [Getters -> [kind : ClientKinds, entry : ClientEntries]]
    /\ hc_pc = [c \in Getters |-> IF hc_call[c].entry = "Get" THEN "get" ELSE "init"]
    /\ hc_built = [c \in Getters |-> FALSE]
    /\ hc_got = [c \in Getters |-> NilClient]

\* The clients other goroutines have stored in the variable caller c uses.
StoredByOthers(c) ==
    {d \in Getters \ {c} : hc_built[d] /\ hc_call[d].kind = hc_call[c].kind}

\* What a read of the package variable by caller c may observe. No lock or
\* atomic orders the callers, so a read observes nil (or, once c has stored,
\* c's own client) or any client another goroutine has stored so far.
Observed(c) ==
    {IF hc_built[c] THEN c ELSE NilClient} \cup StoredByOthers(c)

HcStep(c, npc) ==
    /\ hc_pc' = [hc_pc EXCEPT ![c] = npc]
    /\ UNCHANGED <<notHc, hc_call>>

\* GetXHTTPClient: `if X == nil { return InitXHTTPClient() }`.
HcGetCheck(c) ==
    /\ hc_pc[c] = "get"
    /\ \E seen \in Observed(c) :
         HcStep(c, IF seen = NilClient THEN "init" ELSE "ret")
    /\ UNCHANGED <<hc_client, hc_built, hc_got>>

\* InitXHTTPClient: `if X != nil { return X }`.
HcInitCheck(c) ==
    /\ hc_pc[c] = "init"
    /\ \E seen \in Observed(c) :
         HcStep(c, IF seen = NilClient THEN "build" ELSE "ret")
    /\ UNCHANGED <<hc_client, hc_built, hc_got>>

\* InitXHTTPClient: `tr := &http.Transport{...}; X = &http.Client{...}`.
HcBuild(c) ==
    /\ hc_pc[c] = "build"
    /\ hc_built' = [hc_built EXCEPT ![c] = TRUE]
    /\ hc_client' = [hc_client EXCEPT ![hc_call[c].kind] = c]
    /\ HcStep(c, "ret")
    /\ UNCHANGED hc_got

\* `return X` of either function.
HcReturn(c) ==
    /\ hc_pc[c] = "ret"
    /\ \E seen \in Observed(c) \ {NilClient} : hc_got' = [hc_got EXCEPT ![c] = seen]
    /\ HcStep(c, "done")
    /\ UNCHANGED <<hc_client, hc_built>>

HcNext ==
    \E c \in Getters : HcGetCheck(c) \/ HcInitCheck(c) \/ HcBuild(c) \/ HcReturn(c)

-----------------------------------------------------------------------------
(* ========================== Specifications ============================= *)

InitVsock == VsockInit /\ LifeInit /\ CidIdle /\ SweepIdle /\ RelayIdle /\ SnapIdle /\ RestIdle
    /\ FsIdle
    /\ KcIdle
    /\ AkIdle
    /\ HsIdle
    /\ WkIdle
    /\ RmIdle
    /\ RaIdle
    /\ KvIdle
    /\ HcIdle

VsockNext == VsDial \/ VsReadByte \/ VsValidate

SpecVsock == InitVsock /\ [][VsockNext]_vars

InitLife == LifeInit /\ VsockIdle /\ CidIdle /\ SweepIdle /\ RelayIdle /\ SnapIdle /\ RestIdle
    /\ FsIdle
    /\ KcIdle
    /\ AkIdle
    /\ HsIdle
    /\ WkIdle
    /\ RmIdle
    /\ RaIdle
    /\ KvIdle
    /\ HcIdle

SpecLife == InitLife /\ [][LifeNext]_vars

InitVmm == VmmInit /\ VsockIdle /\ CidIdle /\ SweepIdle /\ RelayIdle /\ SnapIdle /\ RestIdle
    /\ FsIdle
    /\ KcIdle
    /\ AkIdle
    /\ HsIdle
    /\ WkIdle
    /\ RmIdle
    /\ RaIdle
    /\ KvIdle
    /\ HcIdle

SpecVmm == InitVmm /\ [][VmmNext]_vars

InitCid == CidInit /\ VsockIdle /\ LifeInit /\ SweepIdle /\ RelayIdle /\ SnapIdle /\ RestIdle
    /\ FsIdle
    /\ KcIdle
    /\ AkIdle
    /\ HsIdle
    /\ WkIdle
    /\ RmIdle
    /\ RaIdle
    /\ KvIdle
    /\ HcIdle

SpecCid == InitCid /\ [][CidNext]_vars

InitSweep == SweepInit /\ VsockIdle /\ CidIdle /\ RelayIdle /\ SnapIdle /\ RestIdle
    /\ FsIdle
    /\ KcIdle
    /\ AkIdle
    /\ HsIdle
    /\ WkIdle
    /\ RmIdle
    /\ RaIdle
    /\ KvIdle
    /\ HcIdle

SpecSweep == InitSweep /\ [][SweepNext]_vars

InitRelay == RelayIdle /\ VsockIdle /\ LifeInit /\ CidIdle /\ SweepIdle /\ SnapIdle /\ RestIdle
    /\ FsIdle
    /\ KcIdle
    /\ AkIdle
    /\ HsIdle
    /\ WkIdle
    /\ RmIdle
    /\ RaIdle
    /\ KvIdle
    /\ HcIdle

SpecRelay == InitRelay /\ [][RelayNext]_vars

FairRelay == SpecRelay /\ RelayFairness

InitSnap == SnapInit /\ VsockIdle /\ CidIdle /\ SweepIdle /\ RelayIdle /\ RestIdle
    /\ FsIdle
    /\ KcIdle
    /\ AkIdle
    /\ HsIdle
    /\ WkIdle
    /\ RmIdle
    /\ RaIdle
    /\ KvIdle
    /\ HcIdle

SpecSnap == InitSnap /\ [][SnapNext]_vars

\* CreateSnapshot with Resume requests for the same sandboxes arriving at any
\* moment: nothing in machine.Resume or CreateSnapshot makes one wait for
\* the other.
SnapRaceNext ==
    \/ SnapNext
    \/ \E id \in Ids : Resume(id)

SpecSnapRace == InitSnap /\ [][SnapRaceNext]_vars

\* CreateSnapshot and its finalization, with Stop requests for the sandbox
\* whose snapshots are taken arriving at any moment.
StopSnapshotted(id) ==
    /\ id = sn_id
    /\ Stop(id)

SnapStopNext ==
    \/ SnapNext
    \/ \E id \in Ids : StopSnapshotted(id)

SpecSnapStop == InitSnap /\ [][SnapStopNext]_vars

\* CreateSnapshot calls that are all for the same sandbox, so that
\* snapshot_temp is one directory: the next call may begin as soon as the
\* previous one has returned, while finalizations are still running.
SnBeginSame(id) ==
    /\ sn_id \in {0, id}
    /\ SnBegin(id)

SnapSameNext ==
    \/ \E id \in Ids : SnBeginSame(id)
    \/ SnPause \/ SnDirs \/ SnSnapshotStart \/ SnSnapshotEnd \/ SnResume
    \/ \E k \in Snaps : FinCopy(k) \/ FinRename(k) \/ FinChmod(k)

SpecSnapSame == InitSnap /\ [][SnapSameNext]_vars

InitRest == RestInit /\ VsockIdle /\ LifeInit /\ CidIdle /\ SweepIdle /\ RelayIdle /\ SnapIdle
    /\ FsIdle
    /\ KcIdle
    /\ AkIdle
    /\ HsIdle
    /\ WkIdle
    /\ RmIdle
    /\ RaIdle
    /\ KvIdle
    /\ HcIdle

SpecRest == InitRest /\ [][RestNext]_vars

InitFs == FsInit /\ VsockIdle /\ LifeInit /\ CidIdle /\ SweepIdle /\ RelayIdle /\ SnapIdle
    /\ RestIdle
    /\ KcIdle
    /\ AkIdle
    /\ HsIdle
    /\ WkIdle
    /\ RmIdle
    /\ RaIdle
    /\ KvIdle
    /\ HcIdle

SpecFs == InitFs /\ [][FsNext]_vars

InitKc == KcInit /\ VsockIdle /\ LifeInit /\ CidIdle /\ SweepIdle /\ RelayIdle /\ SnapIdle
    /\ RestIdle /\ FsIdle
    /\ AkIdle
    /\ HsIdle
    /\ WkIdle
    /\ RmIdle
    /\ RaIdle
    /\ KvIdle
    /\ HcIdle

SpecKc == InitKc /\ [][KcNext]_vars

InitAk == AkInit /\ VsockIdle /\ LifeInit /\ CidIdle /\ SweepIdle /\ RelayIdle /\ SnapIdle
    /\ RestIdle /\ FsIdle /\ KcIdle
    /\ HsIdle
    /\ WkIdle
    /\ RmIdle
    /\ RaIdle
    /\ KvIdle
    /\ HcIdle

SpecAk == InitAk /\ [][AkNext]_vars

InitHs == HsInit /\ LifeInit /\ CidIdle /\ SweepIdle /\ RelayIdle /\ SnapIdle
    /\ RestIdle /\ FsIdle /\ KcIdle /\ AkIdle
    /\ WkIdle
    /\ RmIdle
    /\ RaIdle
    /\ KvIdle
    /\ HcIdle

SpecHs == InitHs /\ [][HsNext]_vars

InitWk == WkInit /\ VsockIdle /\ LifeInit /\ CidIdle /\ SweepIdle /\ RelayIdle
    /\ SnapIdle /\ RestIdle /\ FsIdle /\ KcIdle /\ AkIdle /\ HsIdle
    /\ RmIdle
    /\ RaIdle
    /\ KvIdle
    /\ HcIdle

SpecWk == InitWk /\ [][WkNext]_vars

InitRm == RmInit /\ VsockIdle /\ LifeInit /\ CidIdle /\ SweepIdle /\ RelayIdle
    /\ SnapIdle /\ RestIdle /\ FsIdle /\ KcIdle /\ AkIdle /\ HsIdle /\ WkIdle
    /\ RaIdle
    /\ KvIdle
    /\ HcIdle

SpecRm == InitRm /\ [][RmNext]_vars

InitRa == RaInit /\ VsockIdle /\ LifeInit /\ CidIdle /\ SweepIdle /\ RelayIdle
    /\ SnapIdle /\ RestIdle /\ FsIdle /\ KcIdle /\ AkIdle /\ HsIdle /\ WkIdle /\ RmIdle
    /\ KvIdle
    /\ HcIdle

SpecRa == InitRa /\ [][RaNext]_vars

InitKv == KvInit /\ VsockIdle /\ LifeInit /\ CidIdle /\ SweepIdle /\ RelayIdle
    /\ SnapIdle /\ RestIdle /\ FsIdle /\ KcIdle /\ AkIdle /\ HsIdle /\ WkIdle /\ RmIdle
    /\ RaIdle
    /\ HcIdle

SpecKv == InitKv /\ [][KvNext]_vars

InitHc == HcInit /\ VsockIdle /\ LifeInit /\ CidIdle /\ SweepIdle /\ RelayIdle
    /\ SnapIdle /\ RestIdle /\ FsIdle /\ KcIdle /\ AkIdle /\ HsIdle /\ WkIdle /\ RmIdle
    /\ RaIdle /\ KvIdle

SpecHc == InitHc /\ [][HcNext]_vars

-----------------------------------------------------------------------------
(* ============================== Claims ================================= *)

\* C1: a successful DialVsock has consumed exactly the bytes up to and
\* including the first '\n' of the guest's reply and nothing after it: the
\* byte that follows the handshake line is still unread on the connection.
HandshakeConsumesOnlyLine ==
    vs_ret = "conn" =>
        /\ FirstNl(vs_stream) > 0
        /\ vs_pos = FirstNl(vs_stream)
        /\ vs_conn = "open"

\* A successful dial with guest bytes still pending after the handshake line.
HandshakeLeavesReplyUnread ==
    /\ vs_ret = "conn"
    /\ vs_pos < Len(vs_stream)
\* C2: a non-2xx answer to a PUT whose body contains InvalidStateTransition
\* yields no error; Pause of a paused sandbox and Resume of a running one
\* return success and leave the VMM in the state it was in.
IdempotentTransitions ==
    /\ (last.op # "none" /\ last.code \notin {0, 200, 204}
            /\ last.body = "InvalidStateTransition") => ~last.err
    /\ (last.op = "vm.pause" /\ last.pre = "Paused")
            => (~last.err /\ last.post = "Paused")
    /\ (last.op = "vm.resume" /\ last.pre = "Running")
            => (~last.err /\ last.post = "Running")

\* Pause was sent to a paused VMM, which refused the transition.
PausedTwice ==
    /\ last.op = "vm.pause" /\ last.pre = "Paused"
    /\ last.code \in {400, 500} /\ last.body = "InvalidStateTransition"

\* C3: the TAP is a bridge port only after the VMM answered success to
\* vm.boot or vm.restore, it is never a bridge port when the VMM processes
\* vm.create, vm.boot or vm.restore, and it is created detached.
LateBinding ==
    \A id \in Ids :
        /\ tapdev[id] = "bridged" => acked[id]
        /\ ~openedBridged[id]
        /\ pc[id] \in {"spawn", "wait", "config", "boot", "enable"}
                => tapdev[id] = "detached"

\* A live restore right after its late binding.
RestoredTapBridged ==
    \E id \in Ids :
        kind[id] = "live" /\ pc[id] = "resume" /\ tapdev[id] = "bridged" /\ acked[id]

\* C8: no two persisted sandbox records have the same IP address.
NoDuplicateIPs ==
    \A i, j \in Ids :
        (i # j /\ rec[i] # "none" /\ rec[j] # "none") => ip[i] # ip[j]

\* C10: every persisted record whose status is not stopped has an instance
\* directory that contains vm.pid or vm.sock.
RunningHasPidOrSock ==
    \A id \in Ids :
        rec[id] \notin {"none", "stopped"}
            => ("dir" \in files[id] /\ ("pid" \in files[id] \/ "sock" \in files[id]))

BoundedWorkers ==
    LET C == IF sw_cfg <= 0 THEN 20 ELSE sw_cfg
    IN /\ Cardinality(Working) <= C
       /\ Cardinality({id \in Ids : sw_worker[id].pc = "probe"}) <= C
       /\ sw_sem = Cardinality(Working)
       /\ MaxConc(DefaultHealthConcurrency) = 16

\* C5 witness: C workers exist and the loop waits for a slot for the next record.
LoopWaitsForSlot ==
    /\ sw_pc = "acquire"
    /\ Cardinality(Working) = MaxConc(sw_cfg)

\* What the relay has read from endpoint e so far.
ReadFrom(e) == SubSeq(rl_sent[e], 1, rl_nread[e])

\* out holds the first messages of read, unchanged, and lacks at most the
\* last one, which the goroutine reading e then has in hand or failed to write.
Forwarded(e, out, read) ==
    /\ Len(out) <= Len(read)
    /\ Len(read) <= Len(out) + 1
    /\ \A i \in 1..Len(out) : out[i] = read[i]
    /\ Len(read) = Len(out) + 1 => rl_g[e] \in {"write", "done"}

CloseEndsRelay ==
    \A e \in Endpoints :
        (rl_handler = "relaying" /\ rl_peerClosed[e])
            ~> (rl_handler = "returned" /\ rl_connClosed[Other(e)])

\* C9 (as claimed): two distinct addresses of the network get distinct CIDs.
DistinctCids ==
    (/\ cid_ra # -1
     /\ cid_rb # -1
     /\ InCidr(cid_a)
     /\ InCidr(cid_b)
     /\ cid_a # cid_b) => cid_ra # cid_rb

\* C11 (as claimed): a Create or Restore that has failed has left no VMM
\* process of the attempt running, no TAP device and no instance directory.
FailureCleansUp ==
    \A id \in Ids :
        pc[id] = "failed" =>
            /\ ~Alive(vmm[id])
            /\ tapdev[id] = "none"
            /\ "dir" \notin files[id]

RestoredKeepsSnapshotIP ==
    \A id \in Ids :
        (kind[id] = "live" /\ pc[id] = "done") =>
            /\ GuestIP(id) = snapIp[id]
            /\ ip[id] = snapIp[id]

\* C14 (as claimed): in every state, a snapshot directory that has a state/
\* subdirectory has every entry under it at mode 0444, and state/ holds a
\* complete dump (partial RAM state is only ever under snapshot_temp/).
FinalizedStateReadOnly ==
    \A k \in Snaps :
        sn_snap[k].state # "absent" =>
            /\ \A e \in Entries : sn_snap[k].modes[e] = "0444"
            /\ sn_snap[k].state = "full"

\* C19 (as claimed): when CreateSnapshot returns after having paused a running
\* sandbox, it has sent vm.resume; it never resumes a sandbox it found paused.
SnapshotResumes ==
    sn_call.ret # "none" =>
        /\ sn_call.paused => sn_call.resumed
        /\ sn_call.was = "Paused" => ~sn_call.resumed

\* The reply line: the bytes of the stream before its first "nl".
ReplyLine == SubSeq(vs_stream, 1, FirstNl(vs_stream) - 1)

\* s, after leading blanks, begins with the two bytes "O", "K".
StartsWithOK(s) ==
    \E i \in 1..Len(s) :
        /\ \A j \in 1..(i - 1) : s[j] = "sp"
        /\ i < Len(s) /\ s[i] = "O" /\ s[i + 1] = "K"

\* C15: a reply with more than 64 bytes before any "nl" makes DialVsock
\* return an error and no connection, with the connection closed.
LongReplyRejected ==
    (/\ vs_pc = "done"
     /\ Len(vs_stream) > 64
     /\ \A i \in 1..65 : vs_stream[i] # "nl")
        => (vs_ret = "error" /\ vs_conn # "open")

\* C15 witness: the 65th byte of a reply without "nl" was read and the
\* connection was closed.
LongReplyWasCut ==
    /\ vs_pc = "done"
    /\ vs_pos = 65
    /\ \A i \in 1..65 : vs_stream[i] # "nl"
    /\ vs_conn = "closed"
    /\ vs_ret = "error"

\* C16: a complete reply line that does not start with OK after trimming
\* makes DialVsock return an error and close; a connection is returned only
\* for a line that starts with OK, and it is open with no deadline.
OnlyOkReturnsConnection ==
    vs_pc = "done" =>
        /\ (FirstNl(vs_stream) > 0 /\ ~StartsWithOK(ReplyLine))
              => (vs_ret = "error" /\ vs_conn # "open")
        /\ vs_ret = "conn"
              => /\ FirstNl(vs_stream) > 0
                 /\ StartsWithOK(ReplyLine)
                 /\ vs_conn = "open"
                 /\ ~vs_deadline
        /\ vs_ret = "error" => vs_conn # "open"

\* C16 witness: a whole line was read, it did not start with OK, and the
\* connection was closed.
ReplyLineRefused ==
    /\ vs_pc = "done"
    /\ FirstNl(vs_stream) > 0
    /\ vs_pos = FirstNl(vs_stream)
    /\ ~StartsWithOK(ReplyLine)
    /\ ReplyLine # <<>>
    /\ vs_conn = "closed"
    /\ vs_ret = "error"

\* The TAP named in vm.tap is a port of the bridge.
TapOfFileBridged(id) == "tap" \in files[id] /\ tapdev[id] = "bridged"

\* C17 as stated: in every state the TAP named in vm.tap is a bridge port
\* exactly when the sandbox has reached the booted step at some point.
BridgedIffEverBooted ==
    \A id \in Ids : TapOfFileBridged(id) <=> acked[id]

\* C17: the TAP named in vm.tap is a bridge port exactly when the sandbox has
\* reached the booted step, the late binding that follows it has been done,
\* and no Stop has removed vm.tap and the TAP since.
BridgedFromBindingToStop ==
    \A id \in Ids :
        /\ tapdev[id] = "bridged" => "tap" \in files[id]
        /\ TapOfFileBridged(id)
              <=> (acked[id] /\ "tap" \in files[id] /\ pc[id] # "enable")

\* C17 witness: a created sandbox that was booted and then bound, with its
\* VMM alive.
BootedAndBound ==
    \E id \in Ids :
        pc[id] = "done" /\ acked[id] /\ TapOfFileBridged(id) /\ Alive(vmm[id])

\* The Restore calls that went past the existence check and have not failed
\* (a call that failed in a copy removed the directory again, and a later
\* call may rightly pass).
PastCheck == {c \in Callers : rs_pc[c] \in {"mkdir", "disk", "state", "start", "started"}}

\* A Restore that found the directory changed nothing: the directory is as it
\* was and no call has copied a file, created a TAP or spawned a VMM.
ExistingDirUntouched ==
    (/\ \E c \in Callers : rs_pc[c] = "refused"
     /\ \A c \in Callers : rs_pc[c] \in {"idle", "refused"})
        => (rs_dir = OldDir /\ \A c \in Callers : rs_made[c] = {})

\* C18: Restore on an existing instance directory returns an error and
\* changes nothing, and of two Restore calls for the same new id at most one
\* goes past the check.
RestoreCheckExclusive ==
    /\ ExistingDirUntouched
    /\ \A c \in Callers : rs_pc[c] = "refused" => rs_made[c] = {}
    /\ Cardinality(PastCheck) <= 1

\* How sh splits a command string into words: blanks separate words, a
\* single quote opens a literal run that the next single quote closes, a
\* backslash outside quotes makes the next byte literal. `ok` is FALSE when
\* the string ends inside quotes or after a backslash.
RECURSIVE ShWords(_, _, _, _, _)
ShWords(cmd, i, mode, cur, words) ==
    IF i > Len(cmd)
    THEN [ok |-> mode \in {"blank", "word"},
          words |-> IF mode = "blank" THEN words ELSE Append(words, cur)]
    ELSE LET c == cmd[i]
         IN CASE mode = "quote" ->
                    IF c = "'" THEN ShWords(cmd, i + 1, "word", cur, words)
                    ELSE ShWords(cmd, i + 1, "quote", Append(cur, c), words)
              [] mode = "escape" ->
                    ShWords(cmd, i + 1, "word", Append(cur, c), words)
              [] OTHER ->
                    IF c = " "
                    THEN ShWords(cmd, i + 1, "blank", <<>>,
                                 IF mode = "word" THEN Append(words, cur) ELSE words)
                    ELSE IF c = "'" THEN ShWords(cmd, i + 1, "quote", cur, words)
                    ELSE IF c = "\\" THEN ShWords(cmd, i + 1, "escape", cur, words)
                    ELSE ShWords(cmd, i + 1, "word", Append(cur, c), words)

\* The words each operation means to run: the tool, its flags, and the
\* cleaned, rooted paths (and what is derived from them) as single words.
IntendedWords ==
    LET p == CleanAbs(fs_req.path)
        a == fs_req.arg
        d == CleanAbs(fs_req.arg)
        op == fs_req.op
        x == p[Len(p)]
    IN CASE op = "DeleteFile" -> << <<"rm">>, <<"-rf">>, p >>
         [] op = "CreateDirectory" -> << <<"mkdir">>, <<"-p">>, p >>
         [] op = "CreateFile" ->
                << <<"mkdir">>, <<"-p">>, Dir(p), <<"&&">>, <<"touch">>, p >>
         [] op = "MoveFile" ->
                << <<"mkdir">>, <<"-p">>, Dir(d), <<"&&">>, <<"mv">>, <<"-f">>, p, d >>
         [] op = "StatFile" -> << <<"stat">>, <<"-c">>, <<"{format}">>, p >>
         [] op = "CopyFile" ->
                << <<"mkdir">>, <<"-p">>, Dir(d), <<"&&">>, <<"cp">>, <<"-r">>, p, d >>
         [] op = "HeadTail" ->
                << <<fs_req.opt>>, <<"-n">>, <<LinesArg(fs_req.lines)>>, p >>
         [] op = "ChangePermissions" -> << <<"chmod">>, a, p >>
         [] op = "DiskUsage" -> << <<"du">>, <<"-sh">>, p >>
         [] op = "SearchFiles" ->
                << <<"find">>, p, <<"-name">>, <<"*">> \o a \o <<"*">>, <<"-type">>,
                   <<"f">>, <<"2>/dev/null">>, <<"|">>, <<"head">>, <<"-100">> >>
         [] op = "CompressFile" /\ fs_req.opt = "zip" ->
                << <<"zip">>, <<"-r">>, p \o <<".zip">>, p >>
         [] op = "CompressFile" ->
                << <<"tar">>, <<IF fs_req.opt = "tar" THEN "-cf" ELSE "-czf">>,
                   p \o <<"." \o fs_req.opt>>, <<"-C">>, Dir(p), Base(p) >>
         [] op = "ExtractArchive" ->
                << <<"mkdir">>, <<"-p">>, d, <<"&&">>,
                   <<IF x = ".zip" THEN "unzip" ELSE "tar">>,
                   <<CASE x = ".zip" -> "-q" [] x = ".tar" -> "-xf" [] OTHER -> "-xzf">>,
                   p, <<IF x = ".zip" THEN "-d" ELSE "-C">>, d >>
         [] OTHER -> <<>>

\* C20: in the command string of every shelled-out operation each path is
\* cleaned, rooted and quoted so that the shell reads it back as one word,
\* whatever bytes the path holds: the command splits into the intended words.
PathsStayQuoted ==
    (fs_cmd # NoCmd /\ ~fs_cmd.err) =>
        ShWords(fs_cmd.cmd, 1, "blank", <<>>, <<>>) = [ok |-> TRUE, words |-> IntendedWords]

\* C21: the kernel command line and the VMM configuration of two Create
\* requests that differ only in EnvVars are the same, and the variables reach
\* the guest only through the agent's /env endpoint, after boot.
CmdLineIgnoresEnv ==
    /\ \A r1 \in Runs, r2 \in Runs :
          (kc_pc[r1] \notin {"idle", "create"} /\ kc_pc[r2] \notin {"idle", "create"})
              => (kc_cmd[r1] = kc_cmd[r2] /\ kc_cfg[r1] = kc_cfg[r2])
    /\ \A r \in Runs :
          /\ kc_cmd[r] # <<>> => kc_cmd[r].envVars = {}
          /\ kc_agent[r] # {} => (kc_pc[r] = "done" /\ kc_agent[r] = kc_env[r])

\* C21 witness: both requests are done, their EnvVars differ and have reached
\* their agents.
DifferentEnvSameCmdLine ==
    /\ kc_pc[1] = "done" /\ kc_pc[2] = "done"
    /\ kc_env[1] # kc_env[2]
    /\ kc_agent[1] = kc_env[1] /\ kc_agent[2] = kc_env[2]
    /\ kc_agent[1] # {} /\ kc_agent[2] # {}
    /\ kc_cmd[1] = kc_cmd[2] /\ kc_cmd[1] # <<>>

\* The edges of the persisted status: a record is created running, pause and
\* resume move between running and paused, either may become stopped, and a
\* record of any status may be deleted.
StatusEdges ==
    {<<"none", "running">>, <<"running", "paused">>, <<"paused", "running">>,
     <<"running", "stopped">>, <<"paused", "stopped">>,
     <<"running", "none">>, <<"paused", "none">>, <<"stopped", "none">>}

\* C22: the persisted status of a sandbox changes only along the edges
\* Created -> Running <-> Paused -> Stopped -> Deleted; once it is stopped,
\* no step makes it running or paused again.
StatusFollowsEdges ==
    [][\A id \in Ids : rec'[id] # rec[id] => <<rec[id], rec'[id]>> \in StatusEdges]_vars

\* C23: after the key is revoked or deactivated, ValidateKey succeeds only
\* before the expiry of the cache entry that existed at the revocation (not
\* at all when there was none); hits do not move that expiry.
RevokedKeyExpires ==
    (ak_rev.at # -1 /\ ak_okAt # -1) => ak_okAt < ak_rev.limit

\* C24: every call site of the CONNECT handshake that ends up holding the
\* connection has read the reply as DialVsock does, one byte at a time: it
\* consumed the bytes through the first '\n' of the reply and none after it.
EveryPathReadsByteWise ==
    (hs_path \in HandshakePaths /\ vs_ret = "conn") =>
        /\ FirstNl(vs_stream) > 0
        /\ vs_pos = FirstNl(vs_stream)

\* C25: a worker that captured an existing socket ends with running exactly
\* when vm.info succeeded with Running or RunningVirtualized in any letter
\* case, with paused exactly when it succeeded with Paused, and with stopped
\* for Loaded, any other state and any error or timeout; once it has returned
\* it has called UpdateStatus with that result exactly when the result
\* differs from the status repo.Find gave at the start of the sweep.
WorkerResultAndWrite ==
    (wk_pc \in {"write", "done"} /\ wk_sock) =>
        LET ok == ~wk_info.err /\ wk_info.why = "none"
            saysRunning ==
                wk_info.state \in {"Running", "running", "RUNNING", "RunningVirtualized",
                                   "runningvirtualized", "RUNNINGVIRTUALIZED"}
            saysPaused == wk_info.state \in {"Paused", "paused", "PAUSED"}
        IN /\ wk_new = "running" <=> (ok /\ saysRunning)
           /\ wk_new = "paused" <=> (ok /\ saysPaused)
           /\ wk_new = "stopped" <=> (~ok \/ (~saysRunning /\ ~saysPaused))
           /\ wk_pc = "done" =>
                wk_updates = IF wk_new # wk_sb THEN <<wk_new>> ELSE <<>>

\* C25 (witness): a worker of a record read as paused was told
\* RUNNINGVIRTUALIZED and wrote running.
WorkerWroteRunning ==
    /\ wk_pc = "done" /\ wk_sock /\ wk_sb = "paused"
    /\ wk_info.state = "RUNNINGVIRTUALIZED"
    /\ wk_updates = <<"running">>

StoppedAbsentSkipped ==
    [][\A id \in Ids :
         /\ (/\ sw_pc = "loop" /\ sw_i = id /\ sw_snap[id] = "stopped"
             /\ "sock" \notin files[id]
             /\ <<sw_pc, sw_i>>' # <<sw_pc, sw_i>>)
            => /\ sw_pc' = "loop" /\ sw_i' = id + 1
               /\ sw_sem' = sw_sem
               /\ sw_worker' = sw_worker /\ sw_worker[id] = NoWorker
               /\ rec' = rec
         /\ (sw_worker[id].pc = "none" /\ sw_worker'[id].pc # "none")
            => (sw_pc = "loop" /\ sw_i = id)
         /\ rec'[id] # rec[id] => sw_worker[id].pc = "write"
         /\ sw_worker'[id].asked => sw_worker[id].pc \in {"probe", "write"}]_vars

\* C27 (witness): the loop has gone past such a record.
LoopPassedStopped ==
    \E id \in Ids :
        /\ sw_ghost[id].ph \in {"sweeping1", "sweepingN"}
        /\ "sock" \notin files[id]
        /\ sw_snap[id] = "stopped"
        /\ sw_pc = "loop" /\ sw_i > id

\* C28: a sandbox never has two reconciler workers: a worker is created for
\* a record only when none exists for it, the loop of one sweep visits the
\* records one after the other and never goes back, RefreshStatuses returns
\* only when none of its workers is left, and a sweep begins only after the
\* previous one has returned.
OneWorkerPerSandbox ==
    [][/\ \A id \in Ids :
            (sw_worker[id].pc # "pending" /\ sw_worker'[id].pc = "pending")
            => (sw_worker[id] = NoWorker /\ sw_pc = "loop" /\ sw_i = id)
       /\ (sw_pc # "idle" /\ sw_pc' # "idle") => sw_i' \in {sw_i, sw_i + 1}
       /\ (sw_pc # "idle" /\ sw_pc' = "idle")
            => (sw_i \notin Ids /\ \A id \in Ids : sw_worker[id] = NoWorker)
       /\ (sw_pc = "idle" /\ sw_pc' # "idle")
            => (sw_i' = 1 /\ \A id \in Ids : sw_worker[id] = NoWorker)]_vars

\* C28 (witness): a later sweep has a worker on a sandbox that an earlier
\* sweep's worker already handled.
LaterSweepWorker ==
    \E id \in Ids :
        /\ sw_ghost[id].ph = "sweepingN"
        /\ sw_worker[id].pc \in {"probe", "write"}

\* The endpoints of the requests sent so far.
SentEndpoints == [i \in 1..Len(rm_sent) |-> rm_sent[i].ep]

IsPrefix(s, t) == Len(s) <= Len(t) /\ s = SubSeq(t, 1, Len(s))

\* C29: a live Restore copies the RAM state before Start and sends
\* vm.restore, then vm.resume, and nothing else; a cold Restore never copies
\* the RAM state, sends vm.create, then vm.boot, and nothing else, and its
\* vm.create carries a kernel command line whose ip= directive has the
\* caller's address. A call that returned without error has done all of it.
RestoreModes ==
    IF rm_in.cold
    THEN /\ "state" \notin rm_copied
         /\ IsPrefix(SentEndpoints, <<"vm.create", "vm.boot">>)
         /\ Len(rm_sent) >= 1 =>
              /\ rm_sent[1].cmdLine.kernelIPArgs[1] = "ip="
              /\ rm_sent[1].cmdLine.kernelIPArgs[2] = rm_in.ip
         /\ rm_pc = "done" =>
              (rm_copied = {"overlay"} /\ SentEndpoints = <<"vm.create", "vm.boot">>)
    ELSE /\ IsPrefix(SentEndpoints, <<"vm.restore", "vm.resume">>)
         /\ Len(rm_sent) >= 1 => rm_copied = {"overlay", "state"}
         /\ rm_pc = "done" =>
              (rm_copied = {"overlay", "state"}
               /\ SentEndpoints = <<"vm.restore", "vm.resume">>)

\* C29 (witness): a cold Restore has returned without error.
ColdRestoreDone ==
    rm_pc = "done" /\ rm_in.cold /\ Len(rm_sent) = 2

\* C30 (as claimed): whenever CreateSnapshot issues vm.snapshot, the VM is
\* paused, whatever Resume requests arrive meanwhile.
SnapshotOnlyWhilePaused ==
    [][(sn_pc = "snapshot" /\ sn_pc' = "writing") => vmm[sn_id] = "Paused"]_vars

\* C31: in a PTY relay close(shutdownChan) is executed at most once however
\* many times and in whatever order the two directions call closeShutdown,
\* the signal is set exactly when it has been executed, and once set it
\* stays set.
ShutdownClosedOnce ==
    [][/\ rl_once'.closes <= 1
       /\ rl_shutdown' <=> (rl_once'.closes = 1)
       /\ rl_shutdown => rl_shutdown']_vars

\* C31 (witness): both directions have called closeShutdown.
BothDirectionsTriggered ==
    rl_kind = "pty" /\ rl_once.calls = 2 /\ rl_once.closes = 1 /\ rl_shutdown

\* C32: a relay handler closes a WebSocket endpoint only when it returns, and
\* it returns only after both relay directions have (or without having
\* started them); when it has returned, the client connection is closed and
\* so is the agent connection if the dial had opened it.
ClosesAfterBothReturned ==
    /\ \A e \in Endpoints :
         rl_connClosed[e] =>
            /\ rl_handler = "returned"
            /\ \A d \in Endpoints : rl_g[d] \in {"off", "done"}
    /\ rl_handler = "returned" =>
         /\ rl_connClosed["client"]
         /\ rl_g["agent"] # "off" => rl_connClosed["agent"]
         /\ rl_g["agent"] = "off" => ~rl_connClosed["agent"]

\* C32 (witness): a relay ran, both directions returned and the handler
\* closed both endpoints.
RelayClosedBoth ==
    /\ rl_handler = "returned"
    /\ \A e \in Endpoints : rl_g[e] = "done" /\ rl_connClosed[e]

\* C33 (as claimed): a PrepareInstance that fails leaves nothing of the
\* attempt behind: no instance directory, no TAP device and no VMM.
PrepareFailureLeavesNothing ==
    [][\A id \in Ids :
         (pc[id] = "prepare" /\ pc'[id] = "failed") =>
            /\ files'[id] = {}
            /\ tapdev'[id] = "none"
            /\ ~Alive(vmm'[id])]_vars

GateOutcomes ==
    /\ (ra_pc = "returned" /\ ra_in.sync /\ ra_probe.ansAt = -1) =>
          ra_out = [vmm |-> "Exited", dir |-> FALSE, rec |-> "none", ret |-> "error"]
    /\ ~ra_in.sync => ra_probe = NoProbe
    /\ ra_out.rec = "running" <=> ra_out.ret = "ok"

\* C35 (as claimed): with synchronous readiness Create returns success only
\* if the agent answered a probe before the readiness deadline.
ReadyBeforeDeadline ==
    /\ GateOutcomes
    /\ (ra_in.sync /\ ra_out.ret = "ok") =>
          (ra_probe.ansAt # -1 /\ ra_probe.ansAt <= ReadyDeadline)

\* C35 (amended): with synchronous readiness Create returns success only if
\* the agent answered a probe that began no later than the readiness
\* deadline, the answer coming within that probe's own timeout.
ReadyOnProbeBegunBeforeDeadline ==
    /\ GateOutcomes
    /\ (ra_in.sync /\ ra_out.ret = "ok") =>
          /\ ra_probe.ansAt # -1
          /\ ra_probe.start <= ReadyDeadline
          /\ ra_probe.ansAt <= ra_probe.start + ProbeTimeout

\* C35 (witness): a synchronous Create succeeded on a later probe, after an
\* earlier one had failed.
ReadyOnLaterProbe ==
    ra_in.sync /\ ra_out.ret = "ok" /\ ra_probe.n >= 2 /\ ra_probe.ansAt # -1

\* C36: a ValidateKey call that returns `invalid api key` leaves the cache
\* as it was, and every cache entry holds a record whose hash is the hash of
\* the plaintext it is filed under.
FailedValidateLeavesCache ==
    [][/\ (kv_last' # kv_last /\ kv_last'.ret = "err") => kv_cache' = kv_cache
       /\ \A p \in Plaintexts :
            kv_cache'[p] # NoEntry => kv_cache'[p].key.hash = <<"bcrypt", p>>]_vars

\* C36 (witness): a call failed while the cache held an entry.
FailedBesideEntry ==
    /\ kv_last.ret = "err"
    /\ \E p \in Plaintexts : kv_cache[p] # NoEntry

\* C37: a Stop that changes anything takes away nothing but vm.pid and vm.tap
\* (the exiting VMM may unlink its own socket): the instance directory, the
\* overlay disk and the VMM log stay, and so do every snapshot, the snapshot
\* scratch directory and the record.
StopKeepsDirectory ==
    [][\A id \in Ids :
         (files'[id] # files[id] \/ tapdev'[id] # tapdev[id])
         => /\ files[id] \ {"pid", "tap", "sock"} \subseteq files'[id]
            /\ files'[id] \subseteq files[id]
            /\ files'[id] \cap {"pid", "tap"} = {}
            /\ {"dir", "overlay", "log"} \subseteq files'[id]
            /\ sn_snap' = sn_snap /\ sn_temp' = sn_temp
            /\ rec' = rec]_vars

\* C37 (witness): a sandbox with a finalized snapshot has been stopped.
StoppedWithSnapshot ==
    \E id \in Ids :
        /\ pc[id] = "done" /\ vmm[id] = "Exited"
        /\ files[id] \cap {"pid", "tap"} = {}
        /\ {"dir", "overlay", "log"} \subseteq files[id]
        /\ \E k \in Snaps : sn_id = id /\ sn_snap[k].dir /\ sn_fin[k] = "done"

\* C38: among concurrent first calls, at most one client of each kind is
\* ever created, and the callers that have returned all hold the client that
\* is stored in the package variable.
OneClientEver ==
    \A k \in ClientKinds :
        /\ Cardinality({c \in Getters : hc_built[c] /\ hc_call[c].kind = k}) <= 1
        /\ \A c \in Getters :
             (hc_pc[c] = "done" /\ hc_call[c].kind = k) => hc_got[c] = hc_client[k]

\* C39 (as claimed): a snapshot directory that has a state/ subdirectory
\* holds in it the complete dump written by the CreateSnapshot call that
\* created the directory, also when a later call for the same sandbox began
\* while the finalization was still running.
StateIsOwnDump ==
    \A k \in Snaps :
        sn_snap[k].state # "absent" =>
            /\ sn_snap[k].from = k
            /\ sn_snap[k].state = "full"

\* C40: where a sandbox has neither vm.pid nor vm.tap (it is stopped already,
\* or it has no instance directory at all), Stop signals nothing, deletes no
\* TAP and leaves every file as it is; and from any state, after one Stop a
\* second Stop changes nothing.
StopIsIdempotent ==
    \A id \in Ids : \A r1, r2 \in BOOLEAN :
        LET f1 == StopFiles(files[id], vmm[id], r1)
            t1 == StopTap(files[id], tapdev[id])
            v1 == StopVmm(files[id], vmm[id])
        IN /\ files[id] \cap {"pid", "tap"} = {}
                => (f1 = files[id] /\ t1 = tapdev[id] /\ v1 = vmm[id])
           /\ StopFiles(f1, v1, r2) = f1
           /\ StopTap(f1, t1) = t1
           /\ StopVmm(f1, v1) = v1

\* C40 (witness): one sandbox has been stopped and still has its directory
\* and the socket file its VMM left, another has been deleted.
StoppedAndDeleted ==
    \E id, j \in Ids :
        /\ pc[id] = "done" /\ vmm[id] = "Exited"
        /\ files[id] \cap {"pid", "tap"} = {}
        /\ {"dir", "sock"} \subseteq files[id]
        /\ pc[j] = "deleted" /\ files[j] = {}

=============================================================================
